---- MODULE Spec2Model ----
(***************************************************************************)
(* Model of the OptiFine CIT -> vanilla item-model converter               *)
(* (src/script.py, src/utils.py).                                          *)
(*                                                                         *)
(* Conventions.                                                            *)
(*  - A file name without extension ("stem") is a sequence of tokens that  *)
(*    the source joins with "_": <<"rod","10">> is "rod_10".  A variant    *)
(*    suffix is such a sequence too; <<>> is the empty string.             *)
(*  - A path is [dir, stem, ext]: dir a sequence of directory segments,    *)
(*    ext the sequence of extensions (<<".json">>).                        *)
(*  - Python's None / a missing dict key is the empty set, a present value *)
(*    v is {v}.                                                            *)
(***************************************************************************)
EXTENDS Integers, Sequences, FiniteSets, TLC

VARIABLES
    pack,   \* the input pack on disk: files, rule files, routing rules
    h,      \* the process-wide mutable state (class-level registries, output tree, report lists)
    pc,     \* position of the running program
    call,   \* the operation performed last, with its arguments
    ret     \* what that operation returned or raised

vars == <<pack, h, pc, call, ret>>

None == {}
Some(v) == {v}
The(s) == CHOOSE v \in s : TRUE
\* A value is bound once, strictly, as
\*     CHOOSE chosen \in {body : x \in {v}} : TRUE
\* which is body with x standing for the value of v; in a chain of these the
\* bindings are listed below the body and read from the last line up.

Last(s) == s[Len(s)]
Front(s) == SubSeq(s, 1, Len(s) - 1)
SeqToSet(s) == {s[i] : i \in 1..Len(s)}

(***************************************************************************)
(* utils.find_file_in_pack                                                 *)
(***************************************************************************)
Namespaces == <<"minecraft", "herobrine", "miniaturia", "modelengine", "space", "cocricot">>

PackRoot == <<"PACK_HB">>

\* A logical reference "ns:dir/stem.ext": ns is None when the string holds no ":".
Ref(ns, dir, stem, ext) == [ns |-> ns, dir |-> dir, stem |-> stem, ext |-> ext]
Path(dir, stem, ext) == [dir |-> dir, stem |-> stem, ext |-> ext]

\* relative_path with the extension appended when it does not end with it
WithExtension(ref, extension) ==
    IF Len(ref.ext) > 0 /\ Last(ref.ext) = extension
    THEN ref.ext
    ELSE Append(ref.ext, extension)

\* base_paths with {namespace} substituted; rootDir is the directory of root_path
BasePathsRootLast(rootDir, ns) ==
    << PackRoot,
       PackRoot \o <<"assets">>,
       PackRoot \o <<"assets", ns>>,
       PackRoot \o <<"assets", ns, "optifine">>,
       PackRoot \o <<"assets", ns, "optifine", "cit">>,
       PackRoot \o <<"assets", ns, "textures">>,
       PackRoot \o <<"assets", ns, "models">>,
       rootDir >>

BasePaths(rootDir, ns) ==
    << rootDir,
       PackRoot,
       PackRoot \o <<"assets">>,
       PackRoot \o <<"assets", ns>>,
       PackRoot \o <<"assets", ns, "optifine">>,
       PackRoot \o <<"assets", ns, "optifine", "cit">>,
       PackRoot \o <<"assets", ns, "textures">>,
       PackRoot \o <<"assets", ns, "models">> >>

SearchedNamespaces(ref) == IF ref.ns # None THEN <<The(ref.ns)>> ELSE Namespaces

\* os.path.join(base_path, relative_path)
FullPath(base, ref, ext) == Path(base \o ref.dir, ref.stem, ext)

\* the inner loop: the first base path, from the j-th on, under which the file exists
RECURSIVE ScanBasePaths(_, _, _, _, _)
ScanBasePaths(fs, bases, ref, ext, j) ==
    IF j > Len(bases) THEN None
    ELSE (LET full_path == FullPath(bases[j], ref, ext) IN
             IF full_path \in fs THEN Some(full_path)
             ELSE ScanBasePaths(fs, bases, ref, ext, j + 1))

\* the outer loop, from the i-th namespace on
RECURSIVE ScanNamespaces(_, _, _, _, _, _)
ScanNamespaces(fs, rootDir, nss, ref, ext, i) ==
    IF i > Len(nss) THEN None
    ELSE (LET bases == BasePaths(rootDir, nss[i]) IN
         CHOOSE chosen \in {
             IF found # None THEN found
             ELSE ScanNamespaces(fs, rootDir, nss, ref, ext, i + 1)
             : found \in {ScanBasePaths(fs, bases, ref, ext, 1)}} : TRUE)

\* "Si root_path est un fichier, on prend son dossier parent".  A root_path that
\* is a directory is written Path(dir, <<>>, <<>>); every caller passes an existing
\* file (the rule file it read, the model file the resolver found).
RootDirectory(fs, root_path) == root_path.dir

\* find_file_in_pack(root_path, relative_path, extension): None or Some(path)
find_file_in_pack(fs, root_path, ref, extension) ==
    (LET nss == SearchedNamespaces(ref) IN
    (LET ext == WithExtension(ref, extension) IN
        ScanNamespaces(fs, RootDirectory(fs, root_path), nss, ref, ext, 1)))

(***************************************************************************)
(* Finite maps (Python dicts)                                              *)
(***************************************************************************)
EmptyMap == [x \in {} |-> {}]
Put(m, k, v) == [x \in DOMAIN m \cup {k} |-> IF x = k THEN v ELSE m[x]]
Get(m, k) == IF k \in DOMAIN m THEN Some(m[k]) ELSE None

(***************************************************************************)
(* Organization: the output router                                         *)
(***************************************************************************)
\* Organization() with no mapping
DefaultOrganization == [ns |-> "default", prefix |-> <<>>]

\* Organization.match: the path relative to the pack root fully matches the
\* rule.  A regex rule is given by the set of pack paths it fully matches, an
\* exact rule by the one path it names.
Match(rule, path) ==
    /\ Len(path.dir) >= 1
    /\ path.dir[1] = PackRoot[1]
    /\ path \in rule.paths

RECURSIVE FirstMatch(_, _, _)
FirstMatch(rules, path, i) ==
    IF i > Len(rules) THEN None
    ELSE IF Match(rules[i], path) THEN Some([ns |-> rules[i].ns, prefix |-> rules[i].prefix])
    ELSE FirstMatch(rules, path, i + 1)

\* Organization.get_organization(primary_path)
get_organization(pk, path) ==
    (LET r == FirstMatch(pk.file_mapping_regex, path, 1) IN
        IF r # None THEN The(r)
        ELSE (LET e == FirstMatch(pk.file_mapping, path, 1) IN
                 IF e # None THEN The(e) ELSE DefaultOrganization))

\* Reference strings "ns:lead/prefix/stem"
basic_get_ref(org, stem) == Ref(Some(org.ns), org.prefix, stem, <<>>)
get_item_model_ref(org, stem) == Ref(Some(org.ns), <<"item">> \o org.prefix, stem, <<>>)
get_texture_item_ref(org, stem) == Ref(Some(org.ns), <<"item">> \o org.prefix, stem, <<>>)
get_item_def_ref(org, stem) == basic_get_ref(org, stem)
get_equipment_def_ref(org, stem) == basic_get_ref(org, stem)

\* Output files: OUTPUT_PATH/assets/<ns>/<kind>/<prefix>/<stem><ext>
OutFile(org, kind, stem, ext) ==
    [ns |-> org.ns, kind |-> kind, prefix |-> org.prefix, stem |-> stem, ext |-> ext]
get_item_model_path(org, stem) == OutFile(org, "models/item", stem, <<".json">>)
get_item_def_path(org, stem) == OutFile(org, "items", stem, <<".json">>)
get_equipment_def_path(org, stem) == OutFile(org, "equipment", stem, <<".json">>)

TextureKind(destination) ==
    CASE destination = "item" -> "textures/item"
      [] destination = "equip_humanoid" -> "textures/entity/equipment/humanoid"
      [] destination = "equip_humanoid_leggings" -> "textures/entity/equipment/humanoid_leggings"
      [] destination = "equip_wings" -> "textures/entity/equipment/wings"

TextureRef(org, destination, stem) ==
    IF destination = "item" THEN get_texture_item_ref(org, stem) ELSE basic_get_ref(org, stem)

(***************************************************************************)
(* The process-wide state                                                  *)
(***************************************************************************)
EmptyHeap ==
    [ jm_instances |-> {},                \* JsonModel._instances (keys)
      jm_file_names |-> EmptyMap,         \* JsonModel._file_names
      png_instances |-> {},               \* PNG._instances (keys)
      png_file_names |-> EmptyMap,        \* PNG._file_names
      generic_instances |-> EmptyMap,     \* GenericJsonModel._instances: key -> organization
      out |-> EmptyMap,                   \* output tree: file -> content
      writes |-> EmptyMap,                \* output tree: file -> number of writes
      cit_with_invalid_type |-> <<>>,
      cit_with_missing_items |-> <<>>,
      cit_has_specific_texture_property |-> <<>>,
      cit_has_specific_model_property |-> <<>>,
      cit_model_file_not_found |-> <<>>,
      cit_texture_file_not_found |-> <<>>,
      cit_with_invalid_stack_size |-> <<>>,
      cit_with_invalid_stack_size_group |-> <<>>,
      cit_with_json_model_error |-> EmptyMap,
      cit_nbt_orphelin |-> <<>>,
      cit_icon_orphelin |-> <<>>,
      stack_size_threshold |-> EmptyMap,
      conversions |-> EmptyMap,           \* self.conversions of each record, by rule file
      manifest |-> None,                  \* conversions.json
      report |-> None ]                   \* conversion_report.md

\* a write that is skipped when the output file exists already
WriteFileOnce(hp, file, content) ==
    IF file \in DOMAIN hp.out THEN hp
    ELSE [hp EXCEPT !.out = Put(hp.out, file, content), !.writes = Put(hp.writes, file, 1)]

\* open(output_path, 'w') ... json.dump / shutil.copy2
WriteFile(hp, file, content) ==
    [hp EXCEPT !.out = Put(hp.out, file, content),
               !.writes = Put(hp.writes, file,
                              IF file \in DOMAIN hp.writes THEN hp.writes[file] + 1 ELSE 1)]

NoError == None
Raise(type, asset, msg) == Some([type |-> type, asset |-> asset, msg |-> msg])
Result(hp, exc, val) == [h |-> hp, exc |-> exc, val |-> val]

(***************************************************************************)
(* PNG: the texture asset                                                  *)
(***************************************************************************)
\* PNG.__init__: the stem guard, then registration of the stem
PNG_init(pk, hp, png_path) ==
    IF png_path.stem \in DOMAIN hp.png_file_names /\ hp.png_file_names[png_path.stem] # png_path
    THEN Result(hp, Raise("PNGError", [path |-> png_path, suffix |-> <<>>], "collision"), None)
    ELSE Result([hp EXCEPT !.png_file_names = Put(hp.png_file_names, png_path.stem, png_path)],
                NoError, None)

\* PNG.getPNG
getPNG(pk, hp, png_path) ==
    IF png_path \in hp.png_instances THEN Result(hp, NoError, None)
    ELSE CHOOSE chosen \in {
             IF r.exc # NoError THEN r
             ELSE Result([r.h EXCEPT !.png_instances = @ \cup {png_path}], NoError, None)
             : r \in {PNG_init(pk, hp, png_path)}} : TRUE

\* PNG.convert: copies the image, and its .png.mcmeta sidecar when there is one
PNG_convert(pk, hp, png_path, destination) ==
    (LET org == get_organization(pk, png_path) IN
    CHOOSE chosen \in {
    (LET mcmeta_path == Path(png_path.dir, png_path.stem, <<".png", ".mcmeta">>) IN
        Result(IF mcmeta_path \in pk.fs
               THEN WriteFile(h1, OutFile(org, TextureKind(destination), png_path.stem,
                                          <<".png", ".mcmeta">>),
                              [copy_of |-> mcmeta_path])
               ELSE h1,
               NoError, Some(TextureRef(org, destination, png_path.stem))))
        : h1 \in {WriteFile(hp, OutFile(org, TextureKind(destination), png_path.stem,
                png_path.ext), [copy_of |-> png_path])}} : TRUE)

(***************************************************************************)
(* JsonModel: the model asset                                              *)
(***************************************************************************)
\* an output name that leaves the variant suffix out
OutputNameStemOnly(stem, specific_suffix) == stem

\* output_name = f"{base_name}_{specific_suffix}" if specific_suffix else base_name
OutputName(stem, specific_suffix) == stem \o specific_suffix

StartsWithDir(ref, seg) == ref.ns = None /\ Len(ref.dir) >= 1 /\ ref.dir[1] = seg
StartsWithNamespace(ref, ns) == ref.ns = Some(ns)
\* "#" + key
HashOf(key) ==
    CASE key = "layer0" -> "#layer0"
      [] key = "layer1" -> "#layer1"
      [] key = "particle" -> "#particle"
      [] OTHER -> "#"
BackReference(key) == Ref(None, <<>>, <<HashOf(key)>>, <<>>)
StartsWithHash(ref) ==
    ref.ns = None /\ ref.dir = <<>> /\ Len(ref.stem) >= 1
    /\ ref.stem[1] \in {"#layer0", "#layer1", "#particle", "#"}

\* parent_path.startswith('minecraft:') or 'item/' or 'block/' or 'builtin/'
AcceptedParent(ref) ==
    \/ StartsWithNamespace(ref, "minecraft")
    \/ StartsWithDir(ref, "item")
    \/ StartsWithDir(ref, "block")
    \/ StartsWithDir(ref, "builtin")

\* texture_path.startswith('#') or 'minecraft:' or 'item/' or 'block/'
AcceptedTexture(ref) ==
    \/ StartsWithHash(ref)
    \/ StartsWithNamespace(ref, "minecraft")
    \/ StartsWithDir(ref, "item")
    \/ StartsWithDir(ref, "block")

\* open(json_path) ... json.load: a missing or malformed file is JSONDecodeError /
\* FileNotFoundError, here valid = FALSE
ReadJson(pk, json_path) ==
    IF json_path \in DOMAIN pk.json THEN pk.json[json_path]
    ELSE [valid |-> FALSE, parent |-> None, textures |-> [kind |-> "absent", entries |-> <<>>]]

\* the texture entries of validation(): the first one neither found nor accepted raises
TexturesValid(pk, json_path, entries) ==
    \A i \in 1..Len(entries) :
        \/ find_file_in_pack(pk.fs, json_path, entries[i].ref, ".png") # None
        \/ AcceptedTexture(entries[i].ref)

Asset(json_path, specific_suffix) == [path |-> json_path, suffix |-> specific_suffix]

RECURSIVE JsonModel_validation(_, _, _, _, _)
RECURSIVE JsonModel_init(_, _, _, _, _)
RECURSIVE getJsonModel(_, _, _, _, _)

\* a parent check that keeps track of the models it went through and stops at one
\* of them instead of descending again
ValidateParentVisited(pk, hp, json_path, specific_suffix, depth, model_data) ==
    Result(hp, NoError, None)

\* "Vérification du parent" of validation(): the registries after it, and what it raised
ValidateParent(pk, hp, json_path, specific_suffix, depth, model_data) ==
    IF model_data.parent = None THEN Result(hp, NoError, None)
    ELSE CHOOSE chosen \in {
             IF parent_file = None
             THEN IF AcceptedParent(The(model_data.parent))
                  THEN Result(hp, NoError, None)
                  ELSE Result(hp, Raise("JsonModelError", Asset(json_path, specific_suffix),
                                        "parent_not_found"), None)
             ELSE CHOOSE chosen \in {
                      IF g.exc # NoError THEN g
                      ELSE JsonModel_validation(pk, g.h, The(parent_file), specific_suffix,
                                                depth - 1)
                      : g \in {getJsonModel(pk, hp, The(parent_file), specific_suffix,
                              depth - 1)}} : TRUE
             : parent_file \in {find_file_in_pack(pk.fs, json_path, The(model_data.parent),
                     ".json")}} : TRUE

\* JsonModel.validation.  depth is what is left of the interpreter's recursion
\* limit: a parent chain that never ends raises RecursionError, which is no
\* ConversionError.
JsonModel_validation(pk, hp, json_path, specific_suffix, depth) ==
    IF depth = 0
    THEN Result(hp, Raise("RecursionError", Asset(json_path, specific_suffix), "recursion"), None)
    ELSE
    (LET model_data == ReadJson(pk, json_path) IN
        IF ~model_data.valid
        THEN Result(hp, Raise("JsonModelError", Asset(json_path, specific_suffix), "read"), None)
        ELSE
        CHOOSE chosen \in {
            IF p1.exc # NoError THEN p1
            ELSE IF model_data.textures.kind = "absent" THEN p1
            ELSE IF model_data.textures.kind # "dict"
            THEN Result(p1.h, Raise("JsonModelError", Asset(json_path, specific_suffix),
                                    "textures_not_dict"), None)
            ELSE IF ~TexturesValid(pk, json_path, model_data.textures.entries)
            THEN Result(p1.h, Raise("JsonModelError", Asset(json_path, specific_suffix),
                                    "texture_not_found"), None)
            ELSE p1
            : p1 \in {ValidateParent(pk, hp, json_path, specific_suffix, depth,
                    model_data)}} : TRUE)

\* a constructor that registers the name and leaves validation out
JsonModel_initUnvalidated(pk, hp, json_path, specific_suffix, depth) ==
    Result([hp EXCEPT !.jm_file_names = Put(hp.jm_file_names,
                                            OutputName(json_path.stem, specific_suffix),
                                            json_path)],
           NoError, None)

\* JsonModel.__init__: the output-name guard, the registration of the name, validation()
JsonModel_init(pk, hp, json_path, specific_suffix, depth) ==
    (LET file_name == OutputName(json_path.stem, specific_suffix) IN
        IF file_name \in DOMAIN hp.jm_file_names /\ hp.jm_file_names[file_name] # json_path
        THEN Result(hp, Raise("JsonModelError", Asset(json_path, specific_suffix), "collision"),
                    None)
        ELSE CHOOSE chosen \in {
                             JsonModel_validation(pk, h1, json_path, specific_suffix, depth)
                 : h1 \in {[hp EXCEPT !.jm_file_names = Put(hp.jm_file_names, file_name,
                         json_path)]}} : TRUE)

\* JsonModel.getJsonModel
getJsonModel(pk, hp, json_path, specific_suffix, depth) ==
    IF Asset(json_path, specific_suffix) \in hp.jm_instances THEN Result(hp, NoError, None)
    ELSE CHOOSE chosen \in {
             IF r.exc # NoError THEN r
             ELSE Result([r.h EXCEPT !.jm_instances = @ \cup {Asset(json_path, specific_suffix)}],
                         NoError, None)
             : r \in {JsonModel_init(pk, hp, json_path, specific_suffix, depth)}} : TRUE

\* the loop of convert() over the texture entries, from entry i on; done holds
\* the entries converted so far, and val is the new value of model_data['textures']
RECURSIVE ConvertTextures(_, _, _, _, _, _, _)
ConvertTextures(pk, hp, json_path, entries, texture_override, i, done) ==
    IF i > Len(entries) THEN Result(hp, NoError, done)
    ELSE IF texture_override # None
    THEN ConvertTextures(pk, hp, json_path, entries, texture_override, i + 1,
                         Append(done, [key |-> entries[i].key, ref |-> The(texture_override)]))
    ELSE CHOOSE chosen \in {
             IF texture_file = None
             THEN ConvertTextures(pk, hp, json_path, entries, texture_override, i + 1,
                                  Append(done, entries[i]))
             ELSE CHOOSE chosen \in {
                      IF g.exc # NoError THEN Result(g.h, g.exc, <<>>)
                      ELSE CHOOSE chosen \in {
                           (LET done1 == Append(done, [key |-> entries[i].key,
                                   ref |-> The(c.val)]) IN
                               ConvertTextures(pk, c.h, json_path, entries, texture_override,
                                               i + 1, done1))
                               : c \in {PNG_convert(pk, g.h, The(texture_file), "item")}} : TRUE
                      : g \in {getPNG(pk, hp, The(texture_file))}} : TRUE
             : texture_file \in {find_file_in_pack(pk.fs, json_path, entries[i].ref,
                     ".png")}} : TRUE

\* "Ajout de la texture particle"
AddParticle(textures) ==
    IF /\ textures.kind = "dict"
       /\ Len(textures.entries) > 0
       /\ \A i \in 1..Len(textures.entries) : textures.entries[i].key # "particle"
    THEN [textures EXCEPT !.entries =
              Append(@, [key |-> "particle", ref |-> BackReference(textures.entries[1].key)])]
    ELSE textures

RECURSIVE JsonModel_convert(_, _, _, _, _, _)

\* "Traitement du parent" of convert(): val is the new value of model_data['parent']
ConvertParent(pk, hp, json_path, specific_suffix, texture_override, depth, model_data) ==
    IF model_data.parent = None THEN Result(hp, NoError, None)
    ELSE CHOOSE chosen \in {
             IF parent_file = None THEN Result(hp, NoError, model_data.parent)
             ELSE CHOOSE chosen \in {
                      IF g.exc # NoError THEN g
                      ELSE JsonModel_convert(pk, g.h, The(parent_file), specific_suffix,
                                             texture_override, depth - 1)
                      : g \in {getJsonModel(pk, hp, The(parent_file), specific_suffix,
                              depth - 1)}} : TRUE
             : parent_file \in {find_file_in_pack(pk.fs, json_path, The(model_data.parent),
                     ".json")}} : TRUE

\* "Traitement des textures" of convert(): val is the new value of model_data['textures']
ConvertTexturesPart(pk, hp, json_path, texture_override, model_data) ==
    IF model_data.textures.kind = "dict"
    THEN CHOOSE chosen \in {
                        Result(c.h, c.exc, [kind |-> "dict", entries |-> c.val])
             : c \in {ConvertTextures(pk, hp, json_path, model_data.textures.entries,
                     texture_override, 1, <<>>)}} : TRUE
    ELSE IF texture_override # None
    THEN Result(hp, NoError,
                [kind |-> "dict",
                 entries |-> <<[key |-> "layer0", ref |-> The(texture_override)]>>])
    ELSE Result(hp, NoError, model_data.textures)

\* JsonModel.convert
JsonModel_convert(pk, hp, json_path, specific_suffix, texture_override, depth) ==
    IF depth = 0
    THEN Result(hp, Raise("RecursionError", Asset(json_path, specific_suffix), "recursion"), None)
    ELSE
    (LET model_data == ReadJson(pk, json_path) IN
        IF ~model_data.valid
        THEN Result(hp, Raise("JsonModelError", Asset(json_path, specific_suffix), "read"), None)
        ELSE
        CHOOSE chosen \in {
            IF p1.exc # NoError THEN Result(p1.h, p1.exc, None)
            ELSE
            CHOOSE chosen \in {
                IF t1.exc # NoError THEN Result(t1.h, t1.exc, None)
                ELSE
                (LET org == get_organization(pk, json_path) IN
                (LET output_name == OutputName(json_path.stem, specific_suffix) IN
                    Result(WriteFile(t1.h, get_item_model_path(org, output_name),
                                     [parent |-> p1.val, textures |-> AddParticle(t1.val)]),
                           NoError, Some(get_item_model_ref(org, output_name)))))
                : t1 \in {ConvertTexturesPart(pk, p1.h, json_path, texture_override,
                        model_data)}} : TRUE
            : p1 \in {ConvertParent(pk, hp, json_path, specific_suffix, texture_override, depth,
                    model_data)}} : TRUE)

(***************************************************************************)
(* GenericJsonModel                                                        *)
(***************************************************************************)
\* output_name = "<properties_name>_from_<item_name>[_<suffix>]"
GenericOutputName(item_name, properties_name, specific_suffix) ==
    properties_name \o <<"from">> \o item_name \o specific_suffix

GenericAsset(output_name, specific_suffix) ==
    [path |-> Path(<<>>, output_name, <<>>), suffix |-> specific_suffix]

\* GenericJsonModel.__init__: the guard against the names of JsonModel
GenericJsonModel_init(pk, hp, item_name, properties_name, specific_suffix) ==
    (LET output_name == GenericOutputName(item_name, properties_name, specific_suffix) IN
        IF /\ output_name \in DOMAIN hp.jm_file_names
           /\ hp.jm_file_names[output_name] # Path(<<>>, output_name, <<>>)
        THEN Result(hp, Raise("JsonModelError", GenericAsset(output_name, specific_suffix),
                              "collision"), None)
        ELSE Result([hp EXCEPT !.jm_file_names =
                         Put(hp.jm_file_names, output_name, Path(<<>>, output_name, <<>>))],
                    NoError, None))

\* GenericJsonModel.getGenericJsonModel: val is the organization of the instance,
\* which is the one given when the instance was first built
getGenericJsonModel(pk, hp, item_name, properties_name, specific_suffix, organization) ==
    (LET key == [item |-> item_name, props |-> properties_name, suffix |-> specific_suffix] IN
        IF key \in DOMAIN hp.generic_instances
        THEN Result(hp, NoError, Some(hp.generic_instances[key]))
        ELSE CHOOSE chosen \in {
                 IF r.exc # NoError THEN r
                 ELSE Result([r.h EXCEPT !.generic_instances = Put(@, key, organization)],
                             NoError, Some(organization))
                 : r \in {GenericJsonModel_init(pk, hp, item_name, properties_name,
                         specific_suffix)}} : TRUE)

\* GenericJsonModel.convert
GenericJsonModel_convert(pk, hp, item_name, properties_name, specific_suffix, org, texture_override) ==
    (LET output_name == GenericOutputName(item_name, properties_name, specific_suffix) IN
        IF texture_override = None
        THEN Result(hp, Raise("JsonModelError", GenericAsset(output_name, specific_suffix),
                              "texture_required"), None)
        ELSE Result(WriteFile(hp, get_item_model_path(org, output_name),
                              [parent |-> Some(Ref(Some("minecraft"), <<"item">>, item_name, <<>>)),
                               textures |-> [kind |-> "dict",
                                             entries |-> <<[key |-> "layer0",
                                                            ref |-> The(texture_override)]>>]]),
                    NoError, Some(get_item_model_ref(org, output_name))))

(***************************************************************************)
(* Property records: the key/value mapping of a rule file                  *)
(***************************************************************************)
\* A mapping is the sequence of its entries in file order, keys distinct.  A
\* key "head.a_b" is [head, sfx = <<"a", "b">>], a key without a dot has sfx = <<>>.
\* An items value is the sequence of its space-separated words, each word
\* "ns:a_b" being [ns, name = <<"a", "b">>].
Key(head, sfx) == [head |-> head, sfx |-> sfx]
Entry(k, v) == [k |-> k, v |-> v]
Word(ns, name) == [ns |-> ns, name |-> name]
\* A value is read as plain text ("prefix:text"), as words, as a reference, or as
\* the "-"-separated parts of a stack size; "" is Text("", "").
Text(prefix, text) == [prefix |-> prefix, text |-> text, words |-> <<>>, ref |-> None, parts |-> <<>>]
Words(words) == [prefix |-> "", text |-> "", words |-> words, ref |-> None, parts |-> <<>>]
RefValue(ref) == [prefix |-> "", text |-> "", words |-> <<>>, ref |-> Some(ref), parts |-> <<>>]
Parts(parts) == [prefix |-> "", text |-> "", words |-> <<>>, ref |-> None, parts |-> parts]

HasKey(props, key) == \E i \in 1..Len(props) : props[i].k = key
Lookup(props, key) == props[CHOOSE i \in 1..Len(props) : props[i].k = key].v
\* d[key] = v: in place when the key is there, at the end when it is not
SetKey(props, key, v) ==
    IF HasKey(props, key)
    THEN [i \in 1..Len(props) |-> IF props[i].k = key THEN Entry(key, v) ELSE props[i]]
    ELSE Append(props, Entry(key, v))
RECURSIVE PopKey(_, _)
PopKey(props, key) ==
    IF props = <<>> THEN <<>>
    ELSE IF Head(props).k = key THEN PopKey(Tail(props), key)
    ELSE <<Head(props)>> \o PopKey(Tail(props), key)

\* value.startswith('minecraft:')
StartsWithMinecraft(value) == Len(value.words) >= 1 /\ value.words[1].ns = Some("minecraft")

\* an items value that keeps its prefix
KeepPrefix(value) == value

\* value[10:]
StripMinecraft(value) == [value EXCEPT !.words[1].ns = None]

NormalizeType(props) ==
    IF ~HasKey(props, Key("type", <<>>)) THEN SetKey(props, Key("type", <<>>), Text("", "item"))
    ELSE IF Lookup(props, Key("type", <<>>)) = Text("", "default")
    THEN SetKey(props, Key("type", <<>>), Text("", "item"))
    ELSE props

NormalizeMatchItems(props) ==
    IF HasKey(props, Key("matchItems", <<>>))
    THEN (LET v == Lookup(props, Key("matchItems", <<>>)) IN
             SetKey(PopKey(props, Key("matchItems", <<>>)), Key("items", <<>>), v))
    ELSE props

NormalizeItems(props) ==
    IF HasKey(props, Key("items", <<>>))
    THEN (LET v == Lookup(props, Key("items", <<>>)) IN
             IF StartsWithMinecraft(v)
             THEN SetKey(props, Key("items", <<>>), StripMinecraft(v))
             ELSE props)
    ELSE props

\* CIT.normalize_properties: works on a copy of raw_properties
normalize_properties(raw_properties) ==
    (LET n1 == NormalizeType(raw_properties) IN
    (LET n2 == NormalizeMatchItems(n1) IN
        NormalizeItems(n2)))

(***************************************************************************)
(* CIT: the Property Record                                                *)
(***************************************************************************)
\* read_properties_file: an unreadable file gives the empty mapping
read_properties_file(pk, file_path) ==
    IF file_path \in DOMAIN pk.props THEN pk.props[file_path] ELSE <<>>

\* self.properties['items'].split(' ') if 'items' in self.properties else []
ItemsOf(properties) ==
    IF HasKey(properties, Key("items", <<>>)) THEN Lookup(properties, Key("items", <<>>)).words
    ELSE <<>>

\* is_supported(item): "bow", "elytra", "shield" or .*_boots$, .*_helmet$,
\* .*_leggings$, .*_chestplate$
is_supported(item) ==
    \/ item.ns = None /\ item.name \in {<<"bow">>, <<"elytra">>, <<"shield">>}
    \/ Len(item.name) >= 2 /\ Last(item.name) \in {"boots", "helmet", "leggings", "chestplate"}

\* any(key.startswith(head + '.') for key in self.properties.keys())
HasDot(properties, head) ==
    \E i \in 1..Len(properties) : properties[i].k.head = head /\ properties[i].k.sfx # <<>>

\* CIT.properties_keys_validations
properties_keys_validations(properties) ==
    (LET items == ItemsOf(properties) IN
    (LET unsupported == items # <<>> /\ ~is_supported(items[1]) IN
        [ has_items_property |-> HasKey(properties, Key("items", <<>>)),
          has_texture_dot |-> HasDot(properties, "texture"),
          has_unspported_specific_texture_property |-> unsupported /\ HasDot(properties, "texture"),
          has_custom_name |-> HasKey(properties, Key("components", <<"custom", "name">>)),
          has_custom_data_property |->
              \E i \in 1..Len(properties) :
                  /\ properties[i].k.head = "components"
                  /\ Len(properties[i].k.sfx) >= 2
                  /\ SubSeq(properties[i].k.sfx, 1, 2) = <<"custom", "data">>,
          has_stack_size |-> HasKey(properties, Key("stackSize", <<>>)),
          has_model_dot |-> HasDot(properties, "model"),
          has_unspported_specific_model_property |-> unsupported /\ HasDot(properties, "model") ]))

\* the loops over 'model.<suffix>' / 'texture.<suffix>' keys, from entry i on
RECURSIVE DottedPaths(_, _, _, _, _, _)
DottedPaths(pk, property_file_path, properties, head, extension, i) ==
    IF i > Len(properties) THEN <<>>
    ELSE IF properties[i].k.head = head /\ properties[i].k.sfx # <<>>
    THEN CHOOSE chosen \in {
             <<[sfx |-> properties[i].k.sfx, path |-> found]>>
                 \o DottedPaths(pk, property_file_path, properties, head, extension, i + 1)
             : found \in {find_file_in_pack(pk.fs, property_file_path, The(properties[i].v.ref),
                     extension)}} : TRUE
    ELSE DottedPaths(pk, property_file_path, properties, head, extension, i + 1)

\* original_json_model_files_paths / original_png_texture_files_paths: the
\* entries suffix -> path or None, "" first, in insertion order
ResolvedPaths(pk, property_file_path, properties, head, extension) ==
    (LET plain == IF HasKey(properties, Key(head, <<>>)) THEN <<[sfx |-> <<>>,
            path |-> find_file_in_pack(pk.fs, property_file_path, The(Lookup(properties, Key(head, <<>>)).ref), extension)]>> ELSE <<>> IN
        plain \o DottedPaths(pk, property_file_path, properties, head, extension, 1))

\* paths.get(suffix)
PathGet(paths, sfx) ==
    IF \E i \in 1..Len(paths) : paths[i].sfx = sfx
    THEN paths[CHOOSE i \in 1..Len(paths) : paths[i].sfx = sfx].path
    ELSE None

AnyNotFound(paths) == \E i \in 1..Len(paths) : paths[i].path = None

\* int(text) of a file-name token; str.isdigit() of it
IsInt(token) == token \in {"1", "2", "5", "10", "+5"}
IsDigit(token) == token \in {"1", "2", "5", "10"}

\* "Validation de stackSize": the threshold, or None when int() raises ValueError.
\* A part is what stands between two "-" of the value: [int |-> None or Some(n)].
StackThreshold(value) ==
    IF Len(value.parts) >= 2
    THEN IF Len(value.parts) = 2 /\ value.parts[1].int # None /\ value.parts[2].int # None
         THEN value.parts[1].int ELSE None
    ELSE IF Len(value.parts) = 1 THEN value.parts[1].int ELSE None

IsStrictPrefix(s, t) == Len(s) < Len(t) /\ SubSeq(t, 1, Len(s)) = s

\* parent_dir.glob(f"{base_name}_*.properties"), in the order of the directory listing
RECURSIVE Glob(_, _, _, _)
Glob(pk, parent_dir, base_name, i) ==
    IF i > Len(pk.order) THEN <<>>
    ELSE IF /\ pk.order[i].dir = parent_dir
            /\ pk.order[i].ext = <<".properties">>
            /\ IsStrictPrefix(base_name, pk.order[i].stem)
    THEN <<pk.order[i]>> \o Glob(pk, parent_dir, base_name, i + 1)
    ELSE Glob(pk, parent_dir, base_name, i + 1)

\* "Validation du groupe de stackSize"
InvalidStackSizeGroup(pk, property_file_path) ==
    (LET file_name == property_file_path.stem IN
        IF Len(file_name) >= 2
        THEN IF ~IsInt(Last(file_name)) THEN TRUE
             ELSE IF Path(property_file_path.dir, Front(file_name), <<".properties">>) \in pk.fs
             THEN FALSE
             ELSE CHOOSE chosen \in {
                      ~\E i \in 1..Len(g) : g[i] # property_file_path /\ IsDigit(Last(g[i].stem))
                      : g \in {Glob(pk, property_file_path.dir, Front(file_name), 1)}} : TRUE
        ELSE CHOOSE chosen \in {
                 ~\E i \in 1..Len(g) : IsDigit(Last(g[i].stem))
                 : g \in {Glob(pk, property_file_path.dir, file_name, 1)}} : TRUE)

\* CIT.properties_values_validations: the flags and paths, and the threshold
\* table after it
properties_values_validations(pk, hp, property_file_path, properties, keys) ==
    CHOOSE chosen \in {
    CHOOSE chosen \in {
    (LET threshold == IF keys.has_stack_size THEN StackThreshold(Lookup(properties,
            Key("stackSize", <<>>))) ELSE None IN
        Result(IF threshold # None
               THEN [hp EXCEPT !.stack_size_threshold = Put(@, property_file_path, The(threshold))]
               ELSE hp,
               NoError,
               [ original_json_model_files_paths |-> models,
                 model_file_not_found |-> AnyNotFound(models),
                 original_png_texture_files_paths |-> textures,
                 texture_file_not_found |-> AnyNotFound(textures),
                 has_invalid_stack_size |-> keys.has_stack_size /\ threshold = None,
                 has_invalid_stack_size_group |->
                     keys.has_stack_size /\ InvalidStackSizeGroup(pk, property_file_path),
                 has_invalid_type |->
                     Lookup(properties, Key("type", <<>>))
                         \notin {Text("", "item"), Text("", "armor"), Text("", "elytra")} ]))
        : textures \in {ResolvedPaths(pk, property_file_path, properties, "texture",
                ".png")}} : TRUE
        : models \in {ResolvedPaths(pk, property_file_path, properties, "model", ".json")}} : TRUE

\* cit_name.endswith("_nbt") / "_icon"
EndsWith(cit_name, token) == Len(cit_name) >= 2 /\ Last(cit_name) = token

\* {k: v for k, v in self.properties.items() if k.startswith("components")}
RECURSIVE OriginalComponents(_)
OriginalComponents(properties) ==
    IF properties = <<>> THEN <<>>
    ELSE IF Head(properties).k.head = "components"
    THEN <<Head(properties)>> \o OriginalComponents(Tail(properties))
    ELSE OriginalComponents(Tail(properties))

\* a record that is always routed by its own path
CitOrganizationOwnPath(pk, property_file_path) == Some(get_organization(pk, property_file_path))

\* "Partial reproduction of _nbt condition in CIT.convert()"
CitOrganization(pk, property_file_path) ==
    IF EndsWith(property_file_path.stem, "nbt")
    THEN (LET base_file == Path(property_file_path.dir, Front(property_file_path.stem), <<".properties">>) IN
             IF base_file \in pk.fs THEN Some(get_organization(pk, base_file)) ELSE None)
    ELSE Some(get_organization(pk, property_file_path))

\* CIT.__init__: val is the record
CIT_init(pk, hp, property_file_path) ==
    (LET raw_properties == read_properties_file(pk, property_file_path) IN
    CHOOSE chosen \in {
    CHOOSE chosen \in {
    CHOOSE chosen \in {
        Result(vals.h, NoError,
               [ property_file_path |-> property_file_path,
                 cit_name |-> property_file_path.stem,
                 raw_properties |-> raw_properties,
                 properties |-> properties,
                 keys |-> keys,
                 vals |-> vals.val,
                 item_list |-> IF keys.has_items_property
                               THEN Some(Lookup(properties, Key("items", <<>>)).words)
                               ELSE None,
                 original_components |-> OriginalComponents(properties),
                 organization |-> CitOrganization(pk, property_file_path) ])
        : vals \in {properties_values_validations(pk, hp, property_file_path, properties,
                keys)}} : TRUE
        : keys \in {properties_keys_validations(properties)}} : TRUE
        : properties \in {normalize_properties(raw_properties)}} : TRUE)

(***************************************************************************)
(* CIT: the synthesis of one record                                        *)
(***************************************************************************)
\* Conversion.from_items: one Conversion per item id
from_items(items, original_components, target_item_def, target_armor_def, target_armor_slot, is_elytra) ==
    [i \in 1..Len(items) |->
        [ item |-> items[i],
          original_components |-> original_components,
          target_item_def |-> target_item_def,
          target_armor_def |-> target_armor_def,
          target_armor_slot |-> target_armor_slot,
          is_elytra |-> is_elytra ]]

\* self.conversions of the record of a rule file
ConversionsOf(hp, property_file_path) ==
    IF property_file_path \in DOMAIN hp.conversions THEN hp.conversions[property_file_path]
    ELSE <<>>

\* CIT.add_conversions
add_conversions(hp, property_file_path, conversions) ==
    [hp EXCEPT !.conversions =
        Put(@, property_file_path, ConversionsOf(hp, property_file_path) \o conversions)]

\* CIT.cit_with_json_model_error[self.property_file_path] = e; return None
RecordError(r, property_file_path) ==
    Result([r.h EXCEPT !.cit_with_json_model_error = Put(@, property_file_path, The(r.exc))],
           NoError, None)

\* except (JsonModelError, PNGError) as e / except PNGError as e: any other
\* exception goes on to the caller
Except(r, types, property_file_path) ==
    IF The(r.exc).type \in types THEN RecordError(r, property_file_path)
    ELSE Result(r.h, r.exc, None)

\* {"model": {"type": "model", "model": model_ref}}
ModelDef(model_ref) == [model |-> [type |-> "model", model |-> model_ref]]

\* PNG.getPNG(path).convert(destination)
ConvertPNG(pk, hp, png_path, destination) ==
    CHOOSE chosen \in {
        IF g.exc # NoError THEN g ELSE PNG_convert(pk, g.h, png_path, destination)
        : g \in {getPNG(pk, hp, png_path)}} : TRUE

\* JsonModel.getJsonModel(path, suffix).convert(texture_override), in its try
ConvertJsonModel(pk, hp, cit, json_path, model_suffix, texture_override, depth) ==
    CHOOSE chosen \in {
        IF g.exc # NoError
        THEN Except(g, {"JsonModelError", "PNGError"}, cit.property_file_path)
        ELSE CHOOSE chosen \in {
                 IF c.exc # NoError
                 THEN Except(c, {"JsonModelError", "PNGError"}, cit.property_file_path)
                 ELSE Result(c.h, NoError, Some(ModelDef(The(c.val))))
                 : c \in {JsonModel_convert(pk, g.h, json_path, model_suffix, texture_override,
                         depth)}} : TRUE
        : g \in {getJsonModel(pk, hp, json_path, model_suffix, depth)}} : TRUE

\* the name of an item id inside a file name
ItemName(item) == (IF item.ns = None THEN <<>> ELSE <<The(item.ns)>>) \o item.name

\* GenericJsonModel.getGenericJsonModel(self.item_list[0], ...).convert(texture_override),
\* in its try; item_list[0] of a record without items is a TypeError
ConvertGenericModel(pk, hp, cit, model_suffix, organization, texture_override) ==
    IF cit.item_list = None
    THEN Result(hp, Raise("TypeError", Asset(cit.property_file_path, model_suffix), "item_list"),
                None)
    ELSE
    (LET item_name == ItemName(The(cit.item_list)[1]) IN
    CHOOSE chosen \in {
        IF g.exc # NoError
        THEN Except(g, {"JsonModelError", "PNGError"}, cit.property_file_path)
        ELSE CHOOSE chosen \in {
                 IF c.exc # NoError
                 THEN Except(c, {"JsonModelError", "PNGError"}, cit.property_file_path)
                 ELSE Result(c.h, NoError, Some(ModelDef(The(c.val))))
                 : c \in {GenericJsonModel_convert(pk, g.h, item_name, cit.cit_name,
                         model_suffix, The(g.val), texture_override)}} : TRUE
        : g \in {getGenericJsonModel(pk, hp, item_name, cit.cit_name, model_suffix,
                organization)}} : TRUE)

\* convert_specific_model after the texture override is known
SpecificModel(pk, hp, cit, model_suffix, organization, depth, texture_override) ==
    (LET specific == PathGet(cit.vals.original_json_model_files_paths, model_suffix) IN
    (LET default == PathGet(cit.vals.original_json_model_files_paths, <<>>) IN
        IF specific # None
        THEN ConvertJsonModel(pk, hp, cit, The(specific), model_suffix, texture_override, depth)
        ELSE IF default # None
        THEN ConvertJsonModel(pk, hp, cit, The(default), model_suffix, texture_override, depth)
        ELSE IF PathGet(cit.vals.original_png_texture_files_paths, model_suffix) # None
        THEN ConvertGenericModel(pk, hp, cit, model_suffix, organization, texture_override)
        ELSE Result(hp, NoError, None)))

\* CIT.convert_specific_model: val is None or Some(model definition)
convert_specific_model(pk, hp, cit, model_suffix, organization, depth) ==
    (LET png_path == PathGet(cit.vals.original_png_texture_files_paths, model_suffix) IN
        IF png_path = None
        THEN SpecificModel(pk, hp, cit, model_suffix, organization, depth, None)
        ELSE CHOOSE chosen \in {
                 IF t.exc # NoError THEN Except(t, {"PNGError"}, cit.property_file_path)
                 ELSE SpecificModel(pk, t.h, cit, model_suffix, organization, depth, t.val)
                 : t \in {ConvertPNG(pk, hp, The(png_path), "item")}} : TRUE)

\* 0.65, 0.9, 0.05
Hundredths(n) == [hundredths |-> n]

ItemBow == ModelDef(Ref(None, <<"item">>, <<"bow">>, <<>>))

\* a bow definition with the two pulling thresholds exchanged
BowDefinitionExchanged(standby, pulling_0, pulling_1, pulling_2) ==
    [model |->
        [ type |-> "condition",
          on_false |-> standby.model,
          on_true |->
              [ type |-> "range_dispatch",
                entries |-> << [model |-> pulling_2.model, threshold |-> Hundredths(65)],
                               [model |-> pulling_1.model, threshold |-> Hundredths(90)] >>,
                fallback |-> pulling_0.model,
                property |-> "minecraft:use_duration",
                scale |-> Hundredths(5) ],
          property |-> "minecraft:using_item" ]]

\* the dict returned for a bow
BowDefinition(standby, pulling_0, pulling_1, pulling_2) ==
    [model |->
        [ type |-> "condition",
          on_false |-> standby.model,
          on_true |->
              [ type |-> "range_dispatch",
                entries |-> << [model |-> pulling_1.model, threshold |-> Hundredths(65)],
                               [model |-> pulling_2.model, threshold |-> Hundredths(90)] >>,
                fallback |-> pulling_0.model,
                property |-> "minecraft:use_duration",
                scale |-> Hundredths(5) ],
          property |-> "minecraft:using_item" ]]

\* one entry of the suffix list of a bow: the suffixes are tried in turn until
\* one gives a definition; item/bow when none does
RECURSIVE BowVariant(_, _, _, _, _, _, _)
BowVariant(pk, hp, cit, suffixes, organization, depth, i) ==
    IF i > Len(suffixes) THEN Result(hp, NoError, ItemBow)
    ELSE CHOOSE chosen \in {
             IF r.exc # NoError THEN r
             ELSE IF r.val # None THEN Result(r.h, NoError, The(r.val))
             ELSE BowVariant(pk, r.h, cit, suffixes, organization, depth, i + 1)
             : r \in {convert_specific_model(pk, hp, cit, suffixes[i], organization, depth)}} : TRUE

BowSuffixes ==
    << <<<<"bow", "standby">>, <<"bow">>>>,
       <<<<"bow", "pulling", "0">>>>,
       <<<<"bow", "pulling", "1">>>>,
       <<<<"bow", "pulling", "2">>>> >>

\* the loop over the suffix list of a bow, from entry i on; models holds the
\* definitions of the entries before
RECURSIVE BowModels(_, _, _, _, _, _, _)
BowModels(pk, hp, cit, organization, depth, i, models) ==
    IF i > Len(BowSuffixes) THEN Result(hp, NoError, models)
    ELSE CHOOSE chosen \in {
             IF r.exc # NoError THEN r
             ELSE BowModels(pk, r.h, cit, organization, depth, i + 1, Append(models, r.val))
             : r \in {BowVariant(pk, hp, cit, BowSuffixes[i], organization, depth, 1)}} : TRUE

\* {"type": "minecraft:special", "base": ..., "model": {"type": "minecraft:shield"}}
ShieldSpecial(retour, builtin) ==
    [model |->
        [ type |-> "minecraft:special",
          base |-> IF retour = None THEN builtin ELSE The(retour).model.model,
          model |-> [type |-> "minecraft:shield"] ]]

ShieldDefinition(retour_normal, retour_blocking) ==
    [model |->
        [ type |-> "minecraft:condition",
          on_false |-> ShieldSpecial(retour_normal,
                                     Ref(Some("minecraft"), <<"item">>, <<"shield">>, <<>>)).model,
          on_true |-> ShieldSpecial(retour_blocking,
                                    Ref(Some("minecraft"), <<"item">>, <<"shield", "blocking">>,
                                        <<>>)).model,
          property |-> "minecraft:using_item" ]]

\* self.item_list and name in self.item_list
InItemList(cit, name) ==
    /\ cit.item_list # None
    /\ \E i \in 1..Len(The(cit.item_list)) : The(cit.item_list)[i] = Word(None, name)

\* CIT.convert_specific_cit: val is None or Some(item definition)
convert_specific_cit(pk, hp, cit, organization, depth) ==
    IF InItemList(cit, <<"bow">>)
    THEN CHOOSE chosen \in {
             IF m.exc # NoError THEN m
             ELSE Result(m.h, NoError,
                         Some(BowDefinition(m.val[1], m.val[2], m.val[3], m.val[4])))
             : m \in {BowModels(pk, hp, cit, organization, depth, 1, <<>>)}} : TRUE
    ELSE IF InItemList(cit, <<"shield">>)
    THEN CHOOSE chosen \in {
             IF b.exc # NoError THEN b
             ELSE CHOOSE chosen \in {
                      IF n.exc # NoError THEN n
                      ELSE Result(n.h, NoError, Some(ShieldDefinition(n.val, b.val)))
                      : n \in {convert_specific_model(pk, b.h, cit, <<>>, organization,
                              depth)}} : TRUE
             : b \in {convert_specific_model(pk, hp, cit, <<"shield", "blocking">>, organization,
                     depth)}} : TRUE
    ELSE convert_specific_model(pk, hp, cit, <<>>, organization, depth)

(***************************************************************************)
(* CIT: equipment, plain items, stack-size groups, and convert()           *)
(***************************************************************************)
\* key.endswith("layer_1") / key.endswith("layer_2")
EndsWithLayer(sfx, n) == Len(sfx) >= 2 /\ SubSeq(sfx, Len(sfx) - 1, Len(sfx)) = <<"layer", n>>

\* the loop over original_png_texture_files_paths.items(): the last path of a
\* key that ends with layer_<n>, None when there is none
RECURSIVE LayerPath(_, _, _, _)
LayerPath(textures, n, i, found) ==
    IF i > Len(textures) THEN found
    ELSE IF EndsWithLayer(textures[i].sfx, n)
    THEN LayerPath(textures, n, i + 1, textures[i].path)
    ELSE LayerPath(textures, n, i + 1, found)

\* json.dump(equipment_json) to the routed equipment definition
WriteEquipment(hp, cit, organization, layers) ==
    Result(WriteFile(hp, get_equipment_def_path(organization, cit.cit_name), [layers |-> layers]),
           NoError, Some(get_equipment_def_ref(organization, cit.cit_name)))

\* PNG.getPNG(layer_path).convert(destination) of a layer that may be missing
ConvertLayer(pk, hp, layer_path, destination) ==
    IF layer_path = None THEN Result(hp, NoError, None)
    ELSE ConvertPNG(pk, hp, The(layer_path), destination)

\* CIT.convert_equipment: val is None or Some(equipment definition reference)
convert_equipment(pk, hp, cit, equipment_type, organization) ==
    IF equipment_type = "elytra"
    THEN (LET layer_path == PathGet(cit.vals.original_png_texture_files_paths, <<>>) IN
             IF layer_path = None THEN Result(hp, NoError, None)
             ELSE CHOOSE chosen \in {
                      IF w.exc # NoError THEN Result(w.h, w.exc, None)
                      ELSE WriteEquipment(w.h, cit, organization,
                                          [wings |-> w.val, humanoid_leggings |-> None,
                                           humanoid |-> None])
                      : w \in {ConvertPNG(pk, hp, The(layer_path), "equip_wings")}} : TRUE)
    ELSE
    (LET layer1_path == LayerPath(cit.vals.original_png_texture_files_paths, "1", 1, None) IN
    (LET layer2_path == LayerPath(cit.vals.original_png_texture_files_paths, "2", 1, None) IN
        IF layer1_path = None /\ layer2_path = None THEN Result(hp, NoError, None)
        ELSE
        CHOOSE chosen \in {
            IF l1.exc # NoError THEN Result(l1.h, l1.exc, None)
            ELSE
            CHOOSE chosen \in {
                IF l2.exc # NoError THEN Result(l2.h, l2.exc, None)
                ELSE WriteEquipment(l2.h, cit, organization,
                                    [wings |-> None, humanoid_leggings |-> l2.val,
                                     humanoid |-> l1.val])
                : l2 \in {ConvertLayer(pk, l1.h, layer2_path, "equip_humanoid_leggings")}} : TRUE
            : l1 \in {ConvertLayer(pk, hp, layer1_path, "equip_humanoid")}} : TRUE))

\* "Déterminer le slot d'armure": the first item id that names a slot decides
RECURSIVE ArmorSlot(_, _, _)
ArmorSlot(items, type_value, i) ==
    IF i > Len(items) THEN [slot |-> None, is_elytra |-> FALSE]
    ELSE IF Len(items[i].name) >= 2 /\ Last(items[i].name) = "helmet"
    THEN [slot |-> Some("head"), is_elytra |-> FALSE]
    ELSE IF \/ Len(items[i].name) >= 2 /\ Last(items[i].name) = "chestplate"
            \/ items[i] = Word(None, <<"elytra">>)
    THEN [slot |-> Some("chest"),
          is_elytra |-> items[i] = Word(None, <<"elytra">>) \/ type_value = "elytra"]
    ELSE IF Len(items[i].name) >= 2 /\ Last(items[i].name) = "leggings"
    THEN [slot |-> Some("legs"), is_elytra |-> FALSE]
    ELSE IF Len(items[i].name) >= 2 /\ Last(items[i].name) = "boots"
    THEN [slot |-> Some("feet"), is_elytra |-> FALSE]
    ELSE ArmorSlot(items, type_value, i + 1)

\* icon_file_1.exists() or icon_file_2.exists()
HasIconFile(pk, property_file_path) ==
    \/ Path(property_file_path.dir, property_file_path.stem \o <<"icon">>, <<".properties">>)
           \in pk.fs
    \/ Path(Front(property_file_path.dir) \o <<"icons">>, property_file_path.stem \o <<"icon">>,
            <<".properties">>) \in pk.fs

\* the armor / elytra branch of CIT.convert
ConvertArmor(pk, hp, cit, base_name, type_value) ==
    CHOOSE chosen \in {
        IF e.exc # NoError THEN e
        ELSE
        (LET s == ArmorSlot(The(cit.item_list), type_value, 1) IN
        (LET target_item_def == IF HasIconFile(pk,
                cit.property_file_path) THEN Some(get_item_def_ref(The(cit.organization), base_name)) ELSE None IN
            Result(add_conversions(e.h, cit.property_file_path,
                                   from_items(The(cit.item_list), cit.original_components,
                                              target_item_def, e.val, s.slot, s.is_elytra)),
                   NoError, None)))
        : e \in {convert_equipment(pk, hp, cit, type_value, The(cit.organization))}} : TRUE

\* CIT.convert_item
convert_item(pk, hp, cit, base_name, organization, depth) ==
    CHOOSE chosen \in {
        IF m.exc # NoError THEN m
        ELSE IF m.val = None THEN Result(m.h, NoError, None)
        ELSE CHOOSE chosen \in {
                 Result(add_conversions(h1, cit.property_file_path,
                                        from_items(The(cit.item_list), cit.original_components,
                                                   Some(get_item_def_ref(organization, base_name)),
                                                   None, None, FALSE)),
                        NoError, None)
                 : h1 \in {WriteFile(m.h, get_item_def_path(organization, base_name),
                         The(m.val))}} : TRUE
        : m \in {convert_specific_cit(pk, hp, cit, organization, depth)}} : TRUE

\* base_name.rsplit('_', 1)[0]
RSplitHead(name) == IF Len(name) >= 2 THEN Front(name) ELSE name

\* "Récupération des variantes": the glob results with an integer suffix, the
\* base file when it exists, the current file taken out and put back last
RECURSIVE Without(_, _)
Without(paths, path) ==
    IF paths = <<>> THEN <<>>
    ELSE IF Head(paths) = path THEN Without(Tail(paths), path)
    ELSE <<Head(paths)>> \o Without(Tail(paths), path)

RECURSIVE IntSuffixed(_)
IntSuffixed(paths) ==
    IF paths = <<>> THEN <<>>
    ELSE IF IsInt(Last(Head(paths).stem)) THEN <<Head(paths)>> \o IntSuffixed(Tail(paths))
    ELSE IntSuffixed(Tail(paths))

Variants(pk, property_file_path, base_name) ==
    (LET base_file_path == Path(property_file_path.dir, base_name, <<".properties">>) IN
    CHOOSE chosen \in {
        Append(Without(IF base_file_path \in pk.fs THEN Append(globbed, base_file_path)
                       ELSE globbed,
                       property_file_path),
               property_file_path)
        : globbed \in {IntSuffixed(Glob(pk, property_file_path.dir, base_name, 1))}} : TRUE)

\* "Création des CIT": a record per variant, kept when it declares a valid stack size
RECURSIVE CitVariants(_, _, _, _, _)
CitVariants(pk, hp, variants, i, kept) ==
    IF i > Len(variants) THEN Result(hp, NoError, kept)
    ELSE CHOOSE chosen \in {
             CitVariants(pk, c.h, variants, i + 1,
                         IF c.val.keys.has_stack_size /\ ~c.val.vals.has_invalid_stack_size
                         THEN Append(kept, c.val) ELSE kept)
             : c \in {CIT_init(pk, hp, variants[i])}} : TRUE

\* list.sort(key=threshold): stable
RECURSIVE InsertByThreshold(_, _, _)
InsertByThreshold(sorted, cit, threshold) ==
    IF sorted = <<>> THEN <<cit>>
    ELSE IF threshold[Head(sorted).property_file_path] <= threshold[cit.property_file_path]
    THEN <<Head(sorted)>> \o InsertByThreshold(Tail(sorted), cit, threshold)
    ELSE <<cit>> \o sorted

RECURSIVE SortByThreshold(_, _, _, _)
SortByThreshold(cits, threshold, i, sorted) ==
    IF i > Len(cits) THEN sorted
    ELSE SortByThreshold(cits, threshold, i + 1, InsertByThreshold(sorted, cits[i], threshold))

\* "Conversion de chaque variante": val holds, per variant, None or Some(definition)
RECURSIVE ModelDefs(_, _, _, _, _, _, _)
ModelDefs(pk, hp, cit_variants, organization, depth, i, defs) ==
    IF i > Len(cit_variants) THEN Result(hp, NoError, defs)
    ELSE CHOOSE chosen \in {
             IF m.exc # NoError THEN m
             ELSE ModelDefs(pk, m.h, cit_variants, organization, depth, i + 1,
                            Append(defs, m.val))
             : m \in {convert_specific_cit(pk, hp, cit_variants[i], organization, depth)}} : TRUE

\* the item definition of a group
RangeDispatch(cit_variants, defs, threshold) ==
    [model |->
        [ type |-> "range_dispatch",
          property |-> "count",
          normalize |-> FALSE,
          entries |-> [i \in 1..Len(cit_variants) |->
                          [ model |-> The(defs[i]).model,
                            threshold |-> threshold[cit_variants[i].property_file_path] ]] ]]

\* an abort that gives back the registries and the output tree of before
AbortGroupRolledBack(before, after) == Result(before, NoError, None)

\* len(model_defs) != len(cit_variants): nothing more is done
AbortGroup(before, after) == Result(after, NoError, None)

\* CIT.convert_stack_item
convert_stack_item(pk, hp, cit, name, organization, depth) ==
    (LET base_name == RSplitHead(name) IN
    CHOOSE chosen \in {
    CHOOSE chosen \in {
    CHOOSE chosen \in {
        IF d.exc # NoError THEN Result(d.h, d.exc, None)
        ELSE IF \E i \in 1..Len(d.val) : d.val[i] = None THEN AbortGroup(v.h, d.h)
        ELSE CHOOSE chosen \in {
                 Result(add_conversions(h1, cit.property_file_path,
                                        from_items(The(cit.item_list), cit.original_components,
                                                   Some(get_item_def_ref(organization, base_name)),
                                                   None, None, FALSE)),
                        NoError, None)
                 : h1 \in {WriteFile(d.h, get_item_def_path(organization, base_name),
                         RangeDispatch(cit_variants, d.val, d.h.stack_size_threshold))}} : TRUE
        : d \in {ModelDefs(pk, v.h, cit_variants, organization, depth, 1, <<>>)}} : TRUE
        : cit_variants \in {SortByThreshold(v.val, v.h.stack_size_threshold, 1, <<>>)}} : TRUE
        : v \in {CitVariants(pk, hp, Variants(pk, cit.property_file_path, base_name), 1,
                <<>>)}} : TRUE)

\* the checks of validate_before_conversion with missing-items first
ValidationChainItemsFirst(cit) ==
    << [failed |-> ~cit.keys.has_items_property, list |-> "cit_with_missing_items"],
       [failed |-> cit.vals.has_invalid_type, list |-> "cit_with_invalid_type"],
       [failed |-> cit.keys.has_unspported_specific_texture_property,
        list |-> "cit_has_specific_texture_property"],
       [failed |-> cit.keys.has_unspported_specific_model_property,
        list |-> "cit_has_specific_model_property"],
       [failed |-> cit.vals.model_file_not_found, list |-> "cit_model_file_not_found"],
       [failed |-> cit.vals.texture_file_not_found, list |-> "cit_texture_file_not_found"],
       [failed |-> cit.vals.has_invalid_stack_size, list |-> "cit_with_invalid_stack_size"],
       [failed |-> cit.vals.has_invalid_stack_size_group,
        list |-> "cit_with_invalid_stack_size_group"] >>

\* the checks of validate_before_conversion, in its order
ValidationChain(cit) ==
    << [failed |-> cit.vals.has_invalid_type, list |-> "cit_with_invalid_type"],
       [failed |-> ~cit.keys.has_items_property, list |-> "cit_with_missing_items"],
       [failed |-> cit.keys.has_unspported_specific_texture_property,
        list |-> "cit_has_specific_texture_property"],
       [failed |-> cit.keys.has_unspported_specific_model_property,
        list |-> "cit_has_specific_model_property"],
       [failed |-> cit.vals.model_file_not_found, list |-> "cit_model_file_not_found"],
       [failed |-> cit.vals.texture_file_not_found, list |-> "cit_texture_file_not_found"],
       [failed |-> cit.vals.has_invalid_stack_size, list |-> "cit_with_invalid_stack_size"],
       [failed |-> cit.vals.has_invalid_stack_size_group,
        list |-> "cit_with_invalid_stack_size_group"] >>

RECURSIVE FirstFailed(_, _)
FirstFailed(chain, i) ==
    IF i > Len(chain) THEN None
    ELSE IF chain[i].failed THEN Some(chain[i].list)
    ELSE FirstFailed(chain, i + 1)

\* CIT.validate_before_conversion: val is what it returns
validate_before_conversion(hp, cit) ==
    (LET failed == FirstFailed(ValidationChain(cit), 1) IN
        IF failed = None THEN Result(hp, NoError, TRUE)
        ELSE Result([hp EXCEPT ![The(failed)] = Append(@, cit.property_file_path)],
                    NoError, FALSE))

\* an _nbt branch that leaves the orphan list alone
ConvertNbtSilently(pk, hp, cit) == Result(hp, NoError, None)

\* the _nbt branch of CIT.convert
ConvertNbt(pk, hp, cit) ==
    (LET base_name == Front(cit.cit_name) IN
        IF Path(cit.property_file_path.dir, base_name, <<".properties">>) \in pk.fs
        THEN Result(add_conversions(hp, cit.property_file_path,
                                    from_items(The(cit.item_list), cit.original_components,
                                               Some(get_item_def_ref(The(cit.organization),
                                                                     base_name)),
                                               None, None, FALSE)),
                    NoError, None)
        ELSE Result([hp EXCEPT !.cit_nbt_orphelin = Append(@, cit.property_file_path)],
                    NoError, None))

\* the _icon check of CIT.convert: the orphan list and base_name after it
IconCheck(pk, hp, cit) ==
    IF EndsWith(cit.cit_name, "icon")
    THEN (LET base_name == Front(cit.cit_name) IN
             [ h |-> IF \/ Path(cit.property_file_path.dir, base_name, <<".properties">>)
                            \in pk.fs
                        \/ Path(Front(cit.property_file_path.dir) \o <<"models">>, base_name,
                                <<".properties">>) \in pk.fs
                     THEN hp
                     ELSE [hp EXCEPT !.cit_icon_orphelin = Append(@, cit.property_file_path)],
               base_name |-> base_name ])
    ELSE [h |-> hp, base_name |-> cit.cit_name]

\* CIT.convert
CIT_convert(pk, hp, cit, depth) ==
    CHOOSE chosen \in {
        IF ~v.val THEN Result(v.h, NoError, None)
        ELSE IF EndsWith(cit.cit_name, "nbt") THEN ConvertNbt(pk, v.h, cit)
        ELSE
        CHOOSE chosen \in {
        (LET type_value == Lookup(cit.properties, Key("type", <<>>)).text IN
            IF type_value \in {"armor", "elytra"}
            THEN ConvertArmor(pk, c.h, cit, c.base_name, type_value)
            ELSE IF ~cit.keys.has_stack_size
            THEN convert_item(pk, c.h, cit, c.base_name, The(cit.organization), depth)
            ELSE convert_stack_item(pk, c.h, cit, c.base_name, The(cit.organization), depth))
            : c \in {IconCheck(pk, v.h, cit)}} : TRUE
        : v \in {validate_before_conversion(hp, cit)}} : TRUE

(***************************************************************************)
(* The asset registries driven call by call                                *)
(***************************************************************************)
CitDir == PackRoot \o <<"assets", "minecraft", "optifine", "cit">>
DirA == CitDir \o <<"a">>
DirB == CitDir \o <<"b">>

JsonFile(dir, stem) == Path(dir, stem, <<".json">>)
PngFile(dir, stem) == Path(dir, stem, <<".png">>)
PropertiesFile(dir, stem) == Path(dir, stem, <<".properties">>)
LocalRef(stem) == Ref(None, <<>>, stem, <<>>)

NoTextures == [kind |-> "absent", entries |-> <<>>]
Textures(entries) == [kind |-> "dict", entries |-> entries]
Json(parent, textures) == [valid |-> TRUE, parent |-> parent, textures |-> textures]

MaxCalls == 3
MaxDepth == 4

AssetSuffixes == {<<>>, <<"s">>}
AssetOverrides == {None, Some(Ref(Some("hb"), <<"item">>, <<"o">>, <<>>))}
AssetModels == {JsonFile(DirA, <<"x">>), JsonFile(DirB, <<"x">>), JsonFile(DirA, <<"x", "s">>)}
AssetTextures == {PngFile(DirA, <<"t">>), PngFile(DirB, <<"t">>)}
AssetDestinations == {"item", "equip_wings"}

RulesA == [file_mapping_regex |->
               << [paths |-> {f \in AssetModels \cup AssetTextures : f.dir = DirA},
                   ns |-> "hb", prefix |-> <<"cit">>] >>,
           file_mapping |-> <<>>]

\* The packs of the asset runs: a/x.json and b/x.json with a parent and textures
\* drawn from a few shapes, a/x_s.json plain, b/p.json the parent of some.
AssetParents ==
    { None,
      Some(LocalRef(<<"p">>)),                                \* resolves to b/p.json from b, nowhere from a
      Some(Ref(None, <<"item">>, <<"generated">>, <<>>)) }    \* built-in, accepted
AssetTextureShapes ==
    { NoTextures,
      Textures(<<[key |-> "layer0", ref |-> LocalRef(<<"t">>)]>>),
      Textures(<<[key |-> "layer0", ref |-> LocalRef(<<"missing">>)]>>) }

AssetPacks ==
    { [ fs |-> AssetModels \cup AssetTextures
                 \cup {JsonFile(DirB, <<"p">>), Path(DirA, <<"t">>, <<".png", ".mcmeta">>)},
        json |-> [f \in AssetModels \cup {JsonFile(DirB, <<"p">>)} |->
                    IF f = JsonFile(DirA, <<"x">>) THEN Json(None, ta)
                    ELSE IF f = JsonFile(DirB, <<"x">>) THEN Json(pb, tb)
                    ELSE IF f = JsonFile(DirB, <<"p">>) THEN Json(None, tb)
                    ELSE Json(None, NoTextures)],
        file_mapping_regex |-> RulesA.file_mapping_regex,
        file_mapping |-> RulesA.file_mapping ]
      : ta \in AssetTextureShapes, tb \in AssetTextureShapes \ {Textures(<<[key |-> "layer0", ref |-> LocalRef(<<"missing">>)]>>)},
        pb \in AssetParents }

NoCall == [op |-> "none", path |-> None, suffix |-> <<>>, override |-> None,
           destination |-> "", cached |-> FALSE]
NoReturn == [exc |-> NoError, val |-> None]

\* call: the operation, the registries and output tree before it, and the
\* operation before it with what that one returned
CallRecord(c, pre) == [op |-> c, pre |-> pre, prev |-> [op |-> call.op, ret |-> ret]]

InitAssets ==
    /\ pack \in AssetPacks
    /\ h = EmptyHeap
    /\ pc = [phase |-> "calls", n |-> 0]
    /\ call = [op |-> NoCall, pre |-> EmptyHeap, prev |-> [op |-> NoCall, ret |-> NoReturn]]
    /\ ret = NoReturn

Finish(r, c) ==
    /\ h' = r.h
    /\ ret' = [exc |-> r.exc, val |-> r.val]
    /\ call' = CallRecord(c, h)
    /\ pc' = [pc EXCEPT !.n = @ + 1]
    /\ UNCHANGED pack

CallGetJsonModel ==
    /\ pc.phase = "calls" /\ pc.n < MaxCalls
    /\ \E f \in AssetModels, sfx \in AssetSuffixes :
          \E r \in {getJsonModel(pack, h, f, sfx, MaxDepth)} : Finish(r,
                 [NoCall EXCEPT !.op = "getJsonModel", !.path = Some(f), !.suffix = sfx,
                                !.cached = ([path |-> f, suffix |-> sfx] \in h.jm_instances)])

CallJsonModelConvert ==
    /\ pc.phase = "calls" /\ pc.n < MaxCalls
    /\ \E key \in h.jm_instances, o \in AssetOverrides :
          \E r \in {JsonModel_convert(pack, h, key.path, key.suffix, o, MaxDepth)} : Finish(r,
                 [NoCall EXCEPT !.op = "convert", !.path = Some(key.path), !.suffix = key.suffix,
                                !.override = o])

CallGetPNG ==
    /\ pc.phase = "calls" /\ pc.n < MaxCalls
    /\ \E f \in AssetTextures :
          \E r \in {getPNG(pack, h, f)} : Finish(r,
                 [NoCall EXCEPT !.op = "getPNG", !.path = Some(f), !.cached = (f \in h.png_instances)])

CallPNGConvert ==
    /\ pc.phase = "calls" /\ pc.n < MaxCalls
    /\ \E f \in h.png_instances, d \in AssetDestinations :
          \E r \in {PNG_convert(pack, h, f, d)} : Finish(r,
                 [NoCall EXCEPT !.op = "PNG.convert", !.path = Some(f), !.destination = d])

NextAssets == CallGetJsonModel \/ CallJsonModelConvert \/ CallGetPNG \/ CallPNGConvert

SpecAssets == InitAssets /\ [][NextAssets]_vars

(***************************************************************************)
(* Claims on the asset registries (SpecAssets)                             *)
(***************************************************************************)
Writes(hp, file) == IF file \in DOMAIN hp.writes THEN hp.writes[file] ELSE 0

\* the last two operations were convert() on the same Model Asset with the same
\* texture override, and the first returned
ConvertTwice ==
    /\ call.op.op = "convert"
    /\ call.prev.op.op = "convert"
    /\ call.prev.op.path = call.op.path
    /\ call.prev.op.suffix = call.op.suffix
    /\ call.prev.op.override = call.op.override
    /\ call.prev.ret.exc = NoError

\* the routed item-model output file of the asset of the last call
RoutedModelFile ==
    LET f == The(call.op.path)
        org == get_organization(pack, f)
    IN  [ns |-> org.ns, kind |-> "models/item", prefix |-> org.prefix,
         stem |-> f.stem \o call.op.suffix, ext |-> <<".json">>]

ConstructedModel == call.op.op = "getJsonModel" /\ ~call.op.cached
ConstructedTexture == call.op.op = "getPNG" /\ ~call.op.cached
IsCollision(exc) == exc # NoError /\ The(exc).msg = "collision"
\* the collision error of the constructed asset itself, not of a parent of it
IsOwnCollision(exc) ==
    /\ IsCollision(exc)
    /\ The(exc).asset = [path |-> The(call.op.path), suffix |-> call.op.suffix]

TexturesDir(ns) == PackRoot \o <<"assets", ns, "textures">>

\* files a reference to "foo" may resolve to, and some it may not
ResolverFiles ==
    { Path(DirA, <<"foo">>, <<".png">>),
      Path(PackRoot, <<"foo">>, <<".png">>),
      Path(TexturesDir("minecraft"), <<"foo">>, <<".png">>),
      Path(TexturesDir("herobrine"), <<"foo">>, <<".png">>),
      Path(PackRoot \o <<"assets", "cocricot", "models">>, <<"foo">>, <<".png">>),
      Path(CitDir \o <<"sub">>, <<"foo">>, <<".png">>),
      Path(DirA, <<"foo">>, <<".png", ".json">>),
      Path(DirB, <<"foo">>, <<>>) }

ResolverRefs ==
    { Ref(None, <<>>, <<"foo">>, <<>>),
      Ref(None, <<>>, <<"foo">>, <<".png">>),
      Ref(Some("herobrine"), <<>>, <<"foo">>, <<>>),
      Ref(Some("other"), <<>>, <<"foo">>, <<".png">>),
      Ref(None, <<"sub">>, <<"foo">>, <<>>) }

\* the referencing file (a rule file of a or b) or a directory
ResolverRoots ==
    { PropertiesFile(DirA, <<"r">>), PropertiesFile(DirB, <<"r">>), Path(CitDir, <<>>, <<>>) }

InitResolver ==
    /\ \E files \in SUBSET ResolverFiles, root \in ResolverRoots,
          ref \in ResolverRefs, extension \in {".png", ".json"} :
          /\ pack = [fs |-> files \cup {PropertiesFile(DirA, <<"r">>), PropertiesFile(DirB, <<"r">>)}]
          /\ call = [op |-> "find_file_in_pack", root_path |-> root, relative_path |-> ref,
                     extension |-> extension]
    /\ h = EmptyHeap
    /\ pc = "call"
    /\ ret = None

Resolve ==
    /\ pc = "call"
    /\ ret' = find_file_in_pack(pack.fs, call.root_path, call.relative_path, call.extension)
    /\ pc' = "returned"
    /\ UNCHANGED <<pack, h, call>>

NextResolver == Resolve

SpecResolver == InitResolver /\ [][NextResolver]_vars

\* the candidate paths in the order the claim gives, written out
CandidateNamespaces ==
    IF call.relative_path.ns # None THEN <<The(call.relative_path.ns)>>
    ELSE <<"minecraft", "herobrine", "miniaturia", "modelengine", "space", "cocricot">>
CandidateExtension ==
    IF Len(call.relative_path.ext) > 0
       /\ call.relative_path.ext[Len(call.relative_path.ext)] = call.extension
    THEN call.relative_path.ext
    ELSE call.relative_path.ext \o <<call.extension>>
CandidateBase(ns, j) ==
    CASE j = 1 -> call.root_path.dir
      [] j = 2 -> <<"PACK_HB">>
      [] j = 3 -> <<"PACK_HB", "assets">>
      [] j = 4 -> <<"PACK_HB", "assets", ns>>
      [] j = 5 -> <<"PACK_HB", "assets", ns, "optifine">>
      [] j = 6 -> <<"PACK_HB", "assets", ns, "optifine", "cit">>
      [] j = 7 -> <<"PACK_HB", "assets", ns, "textures">>
      [] j = 8 -> <<"PACK_HB", "assets", ns, "models">>
Candidate(k) ==
    [dir |-> CandidateBase(CandidateNamespaces[((k - 1) \div 8) + 1], ((k - 1) % 8) + 1)
                 \o call.relative_path.dir,
     stem |-> call.relative_path.stem,
     ext |-> CandidateExtension]
ExistingCandidates == {k \in 1..(8 * Len(CandidateNamespaces)) : Candidate(k) \in pack.fs}

\* C10: the resolver returns the first existing candidate of the fixed order and
\* not-found only when none exists; a reference found both in the referencing
\* file's directory and in a namespace-wide fallback resolves to the local file.
C10_FirstExistingCandidate ==
    pc = "returned" =>
        /\ (ret = None) <=> (ExistingCandidates = {})
        /\ ExistingCandidates # {} =>
              \E k \in ExistingCandidates :
                  /\ \A l \in ExistingCandidates : k <= l
                  /\ ret = {Candidate(k)}
        /\ Candidate(1) \in pack.fs => ret = {Candidate(1)}

C10_Witness ==
    /\ pc = "returned"
    /\ Candidate(1) \in pack.fs
    /\ Candidate(7) \in pack.fs
    /\ Candidate(1) # Candidate(7)
    /\ ret = {Candidate(1)}

(***************************************************************************)
(* Normalization applied to drawn raw mappings                             *)
(***************************************************************************)
Stick == Word(None, <<"stick">>)
McStick == Word(Some("minecraft"), <<"stick">>)
McBow == Word(Some("minecraft"), <<"bow">>)

RawTypes == {None, Some(Text("", "item")), Some(Text("", "default")), Some(Text("", "armor")),
             Some(Text("", "enchantment"))}
RawItems == {None, Some(Words(<<Stick>>)), Some(Words(<<McStick>>)), Some(Words(<<McStick, McBow>>)),
             Some(Words(<<Word(Some("other"), <<"stick">>)>>))}
RawMatchItems == {None, Some(Words(<<McStick>>)), Some(Words(<<Stick>>))}
RawOthers ==
    { <<>>,
      <<Entry(Key("model", <<>>), RefValue(LocalRef(<<"m">>)))>>,
      <<Entry(Key("texture", <<"bow", "pulling", "0">>), RefValue(LocalRef(<<"t">>))),
        Entry(Key("components", <<"custom", "name">>), Text("iregex", "x"))>> }

OptionalEntry(head, v) == IF v = None THEN <<>> ELSE <<Entry(Key(head, <<>>), The(v))>>

\* the mappings of the drawn rule files, the keys in both file orders
RawMappings ==
    { OptionalEntry("type", t) \o OptionalEntry("items", i) \o OptionalEntry("matchItems", m) \o o
        : t \in RawTypes, i \in RawItems, m \in RawMatchItems, o \in RawOthers }
    \cup
    { o \o OptionalEntry("matchItems", m) \o OptionalEntry("items", i) \o OptionalEntry("type", t)
        : t \in RawTypes, i \in RawItems, m \in RawMatchItems, o \in RawOthers }

InitNormalize ==
    /\ pack = [fs |-> {}]
    /\ h = EmptyHeap
    /\ pc = "constructed"
    /\ \E raw \in RawMappings : call = [raw_properties |-> raw]
    /\ ret = None

\* self.properties = self.normalize_properties()
Normalize ==
    /\ pc = "constructed"
    /\ ret' = Some([raw_properties |-> call.raw_properties,
                    properties |-> normalize_properties(call.raw_properties)])
    /\ pc' = "normalized"
    /\ UNCHANGED <<pack, h, call>>

NextNormalize == Normalize

SpecNormalize == InitNormalize /\ [][NextNormalize]_vars

KeysOf(props) == {props[i].k : i \in 1..Len(props)}
ValueOf(props, key) == {props[i].v : i \in {j \in 1..Len(props) : props[j].k = key}}
NormalizedKeys == {Key("type", <<>>), Key("items", <<>>), Key("matchItems", <<>>)}

\* C8: matchItems=minecraft:stick normalizes to items=stick and the matchItems key
\* is gone; no type key, or type=default, normalizes to type=item; any other type
\* value and every other key are carried unchanged; the raw mapping is not modified.
C8_Normalization ==
    pc = "normalized" =>
        LET raw == call.raw_properties
            out == The(ret).properties
        IN  /\ Key("matchItems", <<>>) \notin KeysOf(out)
            /\ ValueOf(raw, Key("matchItems", <<>>)) = {Words(<<McStick>>)}
                  => ValueOf(out, Key("items", <<>>)) = {Words(<<Stick>>)}
            /\ ValueOf(raw, Key("type", <<>>)) \subseteq {Text("", "default")}
                  => ValueOf(out, Key("type", <<>>)) = {Text("", "item")}
            /\ ValueOf(raw, Key("type", <<>>)) \notin {{}, {Text("", "default")}}
                  => ValueOf(out, Key("type", <<>>)) = ValueOf(raw, Key("type", <<>>))
            /\ KeysOf(out) \ NormalizedKeys = KeysOf(raw) \ NormalizedKeys
            /\ \A k \in KeysOf(raw) \ NormalizedKeys : ValueOf(out, k) = ValueOf(raw, k)
            /\ Len(out) = Cardinality(KeysOf(out))
            /\ The(ret).raw_properties = raw

C8_Witness ==
    /\ pc = "normalized"
    /\ ValueOf(call.raw_properties, Key("matchItems", <<>>)) = {Words(<<McStick>>)}
    /\ ValueOf(call.raw_properties, Key("type", <<>>)) = {Text("", "default")}
    /\ ValueOf(The(ret).properties, Key("items", <<>>)) = {Words(<<Stick>>)}
    /\ ValueOf(The(ret).properties, Key("type", <<>>)) = {Text("", "item")}
    /\ Key("model", <<>>) \in KeysOf(The(ret).properties)

(***************************************************************************)
(* The batch driver and the Conversion Ledger                              *)
(***************************************************************************)
\* CIT.get_all_cits: a record per rule file of get_all_cit_properties(), in the
\* order of the directory walk
RECURSIVE get_all_cits(_, _, _, _)
get_all_cits(pk, hp, i, cits) ==
    IF i > Len(pk.order) THEN Result(hp, NoError, cits)
    ELSE CHOOSE chosen \in {
             get_all_cits(pk, c.h, i + 1, Append(cits, c.val))
             : c \in {CIT_init(pk, hp, pk.order[i])}} : TRUE

\* the pieces of a name, a path or a file stem with their separator between them
RECURSIVE Joined(_, _)
Joined(tokens, sep) ==
    IF Len(tokens) <= 1 THEN tokens
    ELSE <<tokens[1], sep>> \o Joined(Tail(tokens), sep)

\* a key made of the name alone
IdenKeyNameOnly(cit) == Joined(cit.cit_name, "_")

\* iden_key: the text made of the original name, the target namespace and the
\* target relative path ("." for the default router) with their labels
IdenKey(cit) ==
    <<"Origninal name: ">> \o Joined(cit.cit_name, "_")
        \o <<" - Target namespace: ", The(cit.organization).ns>>
        \o <<" - Target ressource root relative path: ">>
        \o (IF The(cit.organization).prefix = <<>> THEN <<".">>
            ELSE Joined(The(cit.organization).prefix, "/"))

\* the loop of convert_all_cits over the records that have a router: a record
\* whose key was seen is removed from cit_to_convert
RECURSIVE DuplicateGuard(_, _, _, _, _)
DuplicateGuard(all_cits, i, cit_by_name, cit_to_convert, duplicated) ==
    IF i > Len(all_cits)
    THEN [cit_to_convert |-> cit_to_convert, duplicated |-> duplicated]
    ELSE IF all_cits[i].organization = None
    THEN DuplicateGuard(all_cits, i + 1, cit_by_name, Append(cit_to_convert, all_cits[i]),
                        duplicated)
    ELSE IF IdenKey(all_cits[i]) \notin cit_by_name
    THEN DuplicateGuard(all_cits, i + 1, cit_by_name \cup {IdenKey(all_cits[i])},
                        Append(cit_to_convert, all_cits[i]), duplicated)
    ELSE DuplicateGuard(all_cits, i + 1, cit_by_name, cit_to_convert,
                        Append(duplicated, all_cits[i].property_file_path))

\* Conversion.generate: the components with their method; a field that is None
\* is a key left out, is_elytra is there when target_armor_def is
Enriched(original_components) ==
    [i \in 1..Len(original_components) |->
        [ k |-> original_components[i].k,
          method |-> IF original_components[i].v.prefix \in {"iregex", "ipattern"}
                     THEN "regex" ELSE "exact",
          value |-> IF original_components[i].v.prefix \in {"iregex", "ipattern"}
                    THEN Text("", original_components[i].v.text)
                    ELSE original_components[i].v ]]

\* the keys of result whose value may be None
OptionalKeys == {"target_item_def", "target_armor_def", "target_armor_slot"}

\* a filter that keeps every key
WithNone(result) == result

\* {k: v for k, v in result.items() if v is not None}
WithoutNone(result) ==
    [k \in {key \in DOMAIN result : key \notin OptionalKeys \/ result[key] # None} |-> result[k]]

\* dict.get(field): None when the key is not there
Field(entry, field) == IF field \in DOMAIN entry THEN entry[field] ELSE None

\* entry[field] = value
SetField(entry, field, value) ==
    [k \in DOMAIN entry \cup {field} |-> IF k = field THEN value ELSE entry[k]]

generate(conv) ==
    WithoutNone(
        IF conv.target_armor_def # None
        THEN [ item |-> conv.item,
               original_components |-> Enriched(conv.original_components),
               target_item_def |-> conv.target_item_def,
               target_armor_def |-> conv.target_armor_def,
               target_armor_slot |-> conv.target_armor_slot,
               is_elytra |-> conv.is_elytra ]
        ELSE [ item |-> conv.item,
               original_components |-> Enriched(conv.original_components),
               target_item_def |-> conv.target_item_def,
               target_armor_def |-> conv.target_armor_def,
               target_armor_slot |-> conv.target_armor_slot ])

\* a merge key that leaves target_item_def out
MergeKeyWithoutTarget(entry) ==
    [ item |-> entry.item,
      components |-> SeqToSet(entry.original_components) ]

\* the merge key: item, target_item_def, the sorted components
MergeKey(entry) ==
    [ item |-> entry.item,
      target_item_def |-> Field(entry, "target_item_def"),
      components |-> SeqToSet(entry.original_components) ]

\* merged[key][field] = conv[field] when the kept value is None and the new one is not
FillField(kept, entry, field) ==
    IF Field(kept, field) = None /\ Field(entry, field) # None
    THEN SetField(kept, field, entry[field])
    ELSE kept

\* a merge in which the later value that is not None replaces the kept one
FillFromLater(kept, entry) ==
    (LET filled == IF Field(entry, "target_armor_def") # None
                   THEN SetField(kept, "target_armor_def", entry["target_armor_def"])
                   ELSE kept IN
        IF Field(entry, "target_armor_slot") # None
        THEN SetField(filled, "target_armor_slot", entry["target_armor_slot"])
        ELSE filled)

\* "on garde la valeur non-None si elle existe"
FillFrom(kept, entry) ==
    FillField(FillField(kept, entry, "target_armor_def"), entry, "target_armor_slot")

\* one step of "Fusion des conversions similaires"
Merge(merged, entry) ==
    IF \E j \in 1..Len(merged) : MergeKey(merged[j]) = MergeKey(entry)
    THEN [j \in 1..Len(merged) |->
             IF MergeKey(merged[j]) = MergeKey(entry) THEN FillFrom(merged[j], entry)
             ELSE merged[j]]
    ELSE Append(merged, entry)

RECURSIVE MergeAll(_, _, _)
MergeAll(all_conversions, i, merged) ==
    IF i > Len(all_conversions) THEN merged
    ELSE MergeAll(all_conversions, i + 1, Merge(merged, all_conversions[i]))

\* all_conversions: conv.generate() of every conversion of every record, in order
RECURSIVE AllConversions(_, _, _)
AllConversions(hp, cits, i) ==
    IF i > Len(cits) THEN <<>>
    ELSE (LET convs == ConversionsOf(hp, cits[i].property_file_path) IN
             [j \in 1..Len(convs) |-> generate(convs[j])] \o AllConversions(hp, cits, i + 1))

\* CIT.write_conversions
write_conversions(hp, cits) ==
    [hp EXCEPT !.manifest = Some(MergeAll(AllConversions(hp, cits, 1), 1, <<>>))]

\* OUTPUT_PATH / 'pack.mcmeta'
PackMcmeta == [ns |-> "", kind |-> "", prefix |-> <<>>, stem |-> <<"pack">>, ext |-> <<".mcmeta">>]

\* CIT.generate_report, then the copy of pack.mcmeta
generate_report(hp, duplicated) ==
    WriteFile([hp EXCEPT !.report = Some([duplicated_cit_names |-> duplicated])],
              PackMcmeta, [copy_of |-> Path(<<>>, <<"pack">>, <<".mcmeta">>)])

(***************************************************************************)
(* The run: convert_all_cits, one step per record                          *)
(***************************************************************************)
NoCits == [all_cits |-> <<>>, cit_to_convert |-> <<>>, duplicated |-> <<>>]
NoConversion == [cit |-> None, pre |-> EmptyHeap, exc |-> NoError]

InitRun(packs) ==
    /\ pack \in packs
    /\ h = EmptyHeap
    /\ pc = [phase |-> "start", i |-> 0]
    /\ call = NoCits
    /\ ret = NoConversion

\* all_cits = cls.get_all_cits() and the duplicate-name guard
GetAllCits ==
    /\ pc.phase = "start"
    /\ \E r \in {get_all_cits(pack, h, 1, <<>>)} :
          \E g \in {DuplicateGuard(r.val, 1, {}, <<>>, <<>>)} :
             /\ h' = r.h
             /\ call' = [all_cits |-> r.val, cit_to_convert |-> g.cit_to_convert,
                         duplicated |-> g.duplicated]
    /\ pc' = [phase |-> "convert", i |-> 1]
    /\ UNCHANGED <<pack, ret>>

\* cit.convert() of the next record; an exception that leaves it ends the run
ConvertNext ==
    /\ pc.phase = "convert"
    /\ pc.i <= Len(call.cit_to_convert)
    /\ \E r \in {CIT_convert(pack, h, call.cit_to_convert[pc.i], MaxDepth)} :
          /\ h' = r.h
          /\ ret' = [cit |-> Some(call.cit_to_convert[pc.i]), pre |-> h, exc |-> r.exc]
          /\ pc' = IF r.exc # NoError THEN [pc EXCEPT !.phase = "crashed"]
                   ELSE [pc EXCEPT !.i = @ + 1]
    /\ UNCHANGED <<pack, call>>

\* cls.write_conversions(cit_to_convert)
WriteConversions ==
    /\ pc.phase = "convert"
    /\ pc.i > Len(call.cit_to_convert)
    /\ h' = write_conversions(h, call.cit_to_convert)
    /\ pc' = [pc EXCEPT !.phase = "report"]
    /\ UNCHANGED <<pack, call, ret>>

\* cls.generate_report(...) and the copy of pack.mcmeta
GenerateReport ==
    /\ pc.phase = "report"
    /\ h' = generate_report(h, call.duplicated)
    /\ pc' = [pc EXCEPT !.phase = "done"]
    /\ UNCHANGED <<pack, call, ret>>

NextRun == GetAllCits \/ ConvertNext \/ WriteConversions \/ GenerateReport

(***************************************************************************)
(* Packs                                                                   *)
(***************************************************************************)
Rule(path, props) == [path |-> path, props |-> props]
NoMapping == [file_mapping_regex |-> <<>>, file_mapping |-> <<>>]

\* a pack: its other files, the content of its models, its rule files in the
\* order the directory walk lists them, and the routing configuration
MkPack(files, json, rules, mapping) ==
    [ fs |-> files \cup {rules[i].path : i \in 1..Len(rules)},
      json |-> json,
      props |-> [p \in {rules[i].path : i \in 1..Len(rules)} |->
                    rules[CHOOSE i \in 1..Len(rules) : rules[i].path = p].props],
      order |-> [i \in 1..Len(rules) |-> rules[i].path],
      file_mapping_regex |-> mapping.file_mapping_regex,
      file_mapping |-> mapping.file_mapping ]

Bow == Word(None, <<"bow">>)
IntPart(n) == [int |-> Some(n)]
TextPart == [int |-> None]
StackSize(parts) == Entry(Key("stackSize", <<>>), Parts(parts))
Items(words) == Entry(Key("items", <<>>), Words(words))
Type(text) == Entry(Key("type", <<>>), Text("", text))
Model(sfx, stem) == Entry(Key("model", sfx), RefValue(LocalRef(stem)))
Texture(sfx, stem) == Entry(Key("texture", sfx), RefValue(LocalRef(stem)))

(***************************************************************************)
(* Runs over rule files with every combination of validation flags         *)
(***************************************************************************)
\* a/m.json and a/t.png exist, "missing" does not
ValidationFiles == {JsonFile(DirA, <<"m">>), PngFile(DirA, <<"t">>)}
ValidationJson == [f \in {JsonFile(DirA, <<"m">>)} |-> Json(None, NoTextures)]

ValidationTypes == {<<>>, <<Type("enchantment")>>}
ValidationItems == {<<>>, <<Items(<<Stick>>)>>, <<Items(<<Bow>>)>>}
ValidationModels == {<<>>, <<Model(<<>>, <<"m">>)>>, <<Model(<<>>, <<"missing">>)>>}
ValidationTextures == {<<>>, <<Texture(<<>>, <<"t">>)>>, <<Texture(<<>>, <<"missing">>)>>}
ValidationTextureDots == {<<>>, <<Texture(<<"bow", "pulling", "0">>, <<"t">>)>>}
ValidationModelDots == {<<>>, <<Model(<<"bow", "pulling", "0">>, <<"m">>)>>}
ValidationStackSizes == {<<>>, <<StackSize(<<IntPart(5)>>)>>, <<StackSize(<<TextPart>>)>>}

\* the name of the rule file and the sibling that goes with it
ValidationNames ==
    { [name |-> <<"v">>, siblings |-> <<>>],
      [name |-> <<"v">>,
       siblings |-> <<Rule(PropertiesFile(DirA, <<"v", "2">>),
                           <<Items(<<Stick>>), Texture(<<>>, <<"t">>),
                             StackSize(<<IntPart(2)>>)>>)>>],
      [name |-> <<"v", "nbt">>, siblings |-> <<>>],
      [name |-> <<"v", "5">>, siblings |-> <<>>],
      [name |-> <<"v", "5">>,
       siblings |-> <<Rule(PropertiesFile(DirA, <<"v">>),
                           <<Items(<<Stick>>), Texture(<<>>, <<"t">>),
                             StackSize(<<IntPart(1)>>)>>)>>] }

ValidationPacks ==
    { MkPack(ValidationFiles, ValidationJson,
             <<Rule(PropertiesFile(DirA, n.name), ty \o it \o mo \o te \o td \o md \o st)>>
                 \o n.siblings,
             NoMapping)
        : ty \in ValidationTypes, it \in ValidationItems, mo \in ValidationModels,
          te \in ValidationTextures, td \in ValidationTextureDots, md \in ValidationModelDots,
          st \in ValidationStackSizes, n \in ValidationNames }

InitValidation == InitRun(ValidationPacks)

SpecValidation == InitValidation /\ [][NextRun]_vars

\* the last step was cit.convert() of a record
Converted == pc.phase \in {"convert", "crashed"} /\ ret.cit # None
ConvertedCit == The(ret.cit)

\* the eight category lists, and the flags of the converted record, in the
\* order the claim gives
RejectionLists ==
    << "cit_with_invalid_type", "cit_with_missing_items", "cit_has_specific_texture_property",
       "cit_has_specific_model_property", "cit_model_file_not_found",
       "cit_texture_file_not_found", "cit_with_invalid_stack_size",
       "cit_with_invalid_stack_size_group" >>
RejectionFlags(cit) ==
    << cit.vals.has_invalid_type, ~cit.keys.has_items_property,
       cit.keys.has_unspported_specific_texture_property,
       cit.keys.has_unspported_specific_model_property,
       cit.vals.model_file_not_found, cit.vals.texture_file_not_found,
       cit.vals.has_invalid_stack_size, cit.vals.has_invalid_stack_size_group >>
Failing(cit) == {j \in 1..Len(RejectionLists) : RejectionFlags(cit)[j]}
Occurrences(list, path) == Cardinality({i \in 1..Len(list) : list[i] = path})

\* C3: a converted record with flags set is appended, once, to the list of the
\* first failing check of the fixed order and to no other list, and nothing else
\* of the run's state changes (no synthesis); a record with no flag set is appended
\* to none of the eight lists; no rule file is ever twice in the eight lists.
C3_ShortCircuit ==
    /\ Converted =>
          LET failing == Failing(ConvertedCit)
              p == ConvertedCit.property_file_path
          IN  /\ failing # {} =>
                    \E k \in failing :
                        /\ \A j \in failing : k <= j
                        /\ h = [ret.pre EXCEPT ![RejectionLists[k]] = Append(@, p)]
              /\ failing = {} =>
                    \A j \in 1..Len(RejectionLists) :
                        h[RejectionLists[j]] = ret.pre[RejectionLists[j]]
    /\ \A i \in 1..Len(pack.order) :
          Cardinality({j \in 1..Len(RejectionLists) :
                           Occurrences(h[RejectionLists[j]], pack.order[i]) > 0}) <= 1
    /\ \A i \in 1..Len(pack.order), j \in 1..Len(RejectionLists) :
          Occurrences(h[RejectionLists[j]], pack.order[i]) <= 1

C3_Witness ==
    /\ Converted
    /\ Failing(ConvertedCit) = {2, 5, 6, 7, 8}
    /\ h.cit_with_missing_items = <<ConvertedCit.property_file_path>>
    /\ h.cit_model_file_not_found = <<>>

\* a rule file named <base>_nbt without <base>.properties next to it
NbtOrphan(cit) ==
    /\ Len(cit.cit_name) >= 2
    /\ cit.cit_name[Len(cit.cit_name)] = "nbt"
    /\ [dir |-> cit.property_file_path.dir,
        stem |-> SubSeq(cit.cit_name, 1, Len(cit.cit_name) - 1),
        ext |-> <<".properties">>] \notin pack.fs

NoOutput ==
    /\ h.out = ret.pre.out
    /\ h.writes = ret.pre.writes
    /\ h.conversions = ret.pre.conversions
    /\ ConvertedCit.property_file_path \notin DOMAIN h.conversions

\* C9 as stated: every _nbt rule file without base file is recorded in the _nbt
\* orphan list and produces no output file and no ledger entry, whatever its other
\* properties are.
C9_OrphanRecorded ==
    (Converted /\ NbtOrphan(ConvertedCit)) =>
        /\ Occurrences(h.cit_nbt_orphelin, ConvertedCit.property_file_path) = 1
        /\ NoOutput

\* C9 (amended): an _nbt rule file without base file produces no output file and
\* no ledger entry; it is appended to the _nbt orphan list when it passes record
\* validation, and when it fails validation it is appended to the list of its
\* first failing check and not to the orphan list.
C9_OrphanAfterValidation ==
    (Converted /\ NbtOrphan(ConvertedCit)) =>
        /\ NoOutput
        /\ Failing(ConvertedCit) = {} =>
              h.cit_nbt_orphelin = Append(ret.pre.cit_nbt_orphelin,
                                          ConvertedCit.property_file_path)
        /\ Failing(ConvertedCit) # {} =>
              /\ h.cit_nbt_orphelin = ret.pre.cit_nbt_orphelin
              /\ \E j \in Failing(ConvertedCit) :
                    Occurrences(h[RejectionLists[j]], ConvertedCit.property_file_path) = 1

C9_Witness ==
    /\ Converted
    /\ NbtOrphan(ConvertedCit)
    /\ h.cit_nbt_orphelin = <<ConvertedCit.property_file_path>>
    /\ HasKey(ConvertedCit.properties, Key("texture", <<>>))

(***************************************************************************)
(* Runs in which a conversion error is raised, in every synthesis category *)
(***************************************************************************)
\* a/t.png and b/t.png share a stem, a/x.json and b/x.json an output name;
\* b/bad.json names a texture that is nowhere, b/broken.json is not JSON
ErrorFiles ==
    { PngFile(DirA, <<"t">>), PngFile(DirB, <<"t">>), PngFile(DirB, <<"u">>),
      JsonFile(DirA, <<"x">>), JsonFile(DirB, <<"x">>), JsonFile(DirB, <<"bad">>),
      JsonFile(DirB, <<"broken">>) }
ErrorJson ==
    [f \in {JsonFile(DirA, <<"x">>), JsonFile(DirB, <<"x">>), JsonFile(DirB, <<"bad">>)} |->
        IF f.stem = <<"bad">>
        THEN Json(None, Textures(<<[key |-> "layer0", ref |-> LocalRef(<<"missing">>)]>>))
        ELSE Json(None, NoTextures)]

\* the record of a/ that registers a/t.png, a/x.json or both
ErrorFirst ==
    { Rule(PropertiesFile(DirA, <<"first">>), <<Items(<<Stick>>)>> \o src)
        : src \in { <<Texture(<<>>, <<"t">>)>>, <<Model(<<>>, <<"x">>)>>,
                    <<Texture(<<>>, <<"t">>), Model(<<>>, <<"x">>)>> } }

\* the categories: what the record of b/ is named, what it declares, under which
\* variant suffix its source is declared, and the sibling that goes with it; one
\* armor record names a/t.png as its second layer
ErrorCategories ==
    { [name |-> <<"second">>, props |-> <<Items(<<Stick>>)>>, sfx |-> <<>>, siblings |-> <<>>],
      [name |-> <<"second">>, props |-> <<Items(<<Bow>>)>>, sfx |-> <<"bow", "pulling", "1">>,
       siblings |-> <<>>],
      [name |-> <<"second">>, props |-> <<Items(<<Word(None, <<"shield">>)>>)>>,
       sfx |-> <<"shield", "blocking">>, siblings |-> <<>>],
      [name |-> <<"second">>,
       props |-> <<Type("armor"), Items(<<Word(None, <<"iron", "chestplate">>)>>)>>,
       sfx |-> <<"iron", "layer", "1">>, siblings |-> <<>>],
      [name |-> <<"second">>,
       props |-> <<Type("armor"), Items(<<Word(None, <<"iron", "chestplate">>)>>),
                   Entry(Key("texture", <<"iron", "layer", "2">>),
                         RefValue(Ref(None, <<"a">>, <<"t">>, <<>>)))>>,
       sfx |-> <<"iron", "layer", "1">>, siblings |-> <<>>],
      [name |-> <<"second">>, props |-> <<Type("elytra"), Items(<<Word(None, <<"elytra">>)>>)>>,
       sfx |-> <<>>, siblings |-> <<>>],
      [name |-> <<"second", "5">>, props |-> <<Items(<<Stick>>), StackSize(<<IntPart(5)>>)>>,
       sfx |-> <<>>,
       siblings |-> <<Rule(PropertiesFile(DirB, <<"second", "10">>),
                           <<Items(<<Stick>>), Texture(<<>>, <<"u">>),
                             StackSize(<<IntPart(10)>>)>>)>>] }

\* the source of the record of b/
ErrorSources(sfx) ==
    { <<Texture(sfx, <<"t">>)>>, <<Texture(sfx, <<"u">>)>>, <<Model(sfx, <<"x">>)>>,
      <<Model(sfx, <<"bad">>)>>, <<Model(sfx, <<"broken">>)>> }

ErrorPacks ==
    UNION { { MkPack(ErrorFiles, ErrorJson,
                     IF firstLast
                     THEN <<Rule(PropertiesFile(DirB, c.name), c.props \o src)>> \o c.siblings
                              \o <<first>>
                     ELSE <<first, Rule(PropertiesFile(DirB, c.name), c.props \o src)>>
                              \o c.siblings,
                     NoMapping)
                : src \in ErrorSources(c.sfx), first \in ErrorFirst, firstLast \in BOOLEAN }
            : c \in ErrorCategories }

InitErrors == InitRun(ErrorPacks)

SpecErrors == InitErrors /\ [][NextRun]_vars

ConversionErrors == {"JsonModelError", "PNGError"}

\* a texture the record declares has the stem of another texture that is
\* registered already
Colliding(cit, pre) ==
    \E i \in 1..Len(cit.vals.original_png_texture_files_paths) :
        LET path == cit.vals.original_png_texture_files_paths[i].path
        IN  /\ path # None
            /\ The(path).stem \in DOMAIN pre.png_file_names
            /\ pre.png_file_names[The(path).stem] # The(path)

\* C4: no conversion error (JsonModelError, PNGError) leaves cit.convert() of a
\* record, in any category, and a record that passed validation and whose texture
\* collides with a registered one is in the error map under its path.
C4_ErrorsCaught ==
    (Converted /\ Failing(ConvertedCit) = {}) =>
        /\ ret.exc # NoError => The(ret.exc).type \notin ConversionErrors
        /\ Colliding(ConvertedCit, ret.pre) =>
              ConvertedCit.property_file_path \in DOMAIN h.cit_with_json_model_error

(***************************************************************************)
(* Runs over two rule files of the same item id: the merge of the ledger   *)
(***************************************************************************)
MergeFiles == {PngFile(DirA, <<"t">>), PngFile(DirA, <<"u">>), PngFile(DirB, <<"u">>)}

CustomName(prefix) == Entry(Key("components", <<"custom", "name">>), Text(prefix, "x"))
MergeComponents == {<<>>, <<CustomName("")>>, <<CustomName("iregex")>>}

IronChestplate == Word(None, <<"iron", "chestplate">>)

\* a/foo: a plain item, the base of a stack-size group, or an armor
MergeFirst ==
    { Rule(PropertiesFile(DirA, <<"foo">>), <<Items(<<Stick>>), Texture(<<>>, <<"t">>)>>),
      Rule(PropertiesFile(DirA, <<"foo">>),
           <<Items(<<Stick>>), Texture(<<>>, <<"t">>), StackSize(<<IntPart(1)>>)>>),
      Rule(PropertiesFile(DirA, <<"foo">>),
           <<Type("armor"), Items(<<IronChestplate>>),
             Texture(<<"iron", "layer", "1">>, <<"t">>)>>) }

\* the other file: another name, the same name in b/, foo_nbt, foo_2, foo_icon
MergeSecond ==
    { Rule(PropertiesFile(DirA, <<"bar">>), <<Texture(<<>>, <<"u">>)>>),
      Rule(PropertiesFile(DirB, <<"foo">>), <<Texture(<<>>, <<"u">>)>>),
      Rule(PropertiesFile(DirA, <<"foo", "nbt">>), <<>>),
      Rule(PropertiesFile(DirA, <<"foo", "2">>),
           <<Texture(<<>>, <<"u">>), StackSize(<<IntPart(2)>>)>>),
      Rule(PropertiesFile(DirA, <<"foo", "icon">>), <<Texture(<<>>, <<"u">>)>>) }

\* every file of a/ routed to hb:cit, the rest to the default router
MergeRouting(rules) ==
    [ file_mapping_regex |->
          << [paths |-> {f \in MergeFiles \cup {rules[i].path : i \in 1..Len(rules)}
                            : f.dir = DirA},
              ns |-> "hb", prefix |-> <<"cit">>] >>,
      file_mapping |-> <<>> ]

MergeRules ==
    UNION { { IF secondFirst THEN <<second, first>> ELSE <<first, second>>
                : secondFirst \in BOOLEAN }
            : first \in { Rule(r.path, r.props \o c) : r \in MergeFirst, c \in MergeComponents },
              second \in { Rule(r.path, <<Items(<<i>>)>> \o r.props \o c)
                             : r \in MergeSecond, i \in {Stick, IronChestplate},
                               c \in MergeComponents } }

MergePacks ==
    { MkPack(MergeFiles, <<>>, rules, IF routed THEN MergeRouting(rules) ELSE NoMapping)
        : rules \in MergeRules, routed \in BOOLEAN }

InitMerge == InitRun(MergePacks)

SpecMerge == InitMerge /\ [][NextRun]_vars

\* conversions.json is written
Manifest == The(h.manifest)
Ledger(cit) == ConversionsOf(h, cit.property_file_path)

\* the entries of the manifest for an item id and a predicate
ManifestEntries(item, components) ==
    { k \in 1..Len(Manifest) :
        /\ Manifest[k].item = item
        /\ SeqToSet(Manifest[k].original_components) = SeqToSet(Enriched(components)) }

\* two different converted records of one router that both have ledger entries,
\* list the item id and carry the same components
SameItemAndPredicate(c1, c2, item) ==
    /\ c1.property_file_path # c2.property_file_path
    /\ c1.organization # None
    /\ c1.organization = c2.organization
    /\ Ledger(c1) # <<>>
    /\ Ledger(c2) # <<>>
    /\ \E a \in 1..Len(Ledger(c1)) : Ledger(c1)[a].item = item
    /\ \E b \in 1..Len(Ledger(c2)) : Ledger(c2)[b].item = item
    /\ SeqToSet(c1.original_components) = SeqToSet(c2.original_components)

\* C5 as stated: two rule files of the same router with the same item id and the
\* same components have exactly one entry in the manifest for that item id and
\* predicate, whatever the files are named.
C5_OneEntryPerItem ==
    h.manifest # None =>
        \A i, j \in 1..Len(call.cit_to_convert) :
            \A item \in {Stick, IronChestplate} :
                SameItemAndPredicate(call.cit_to_convert[i], call.cit_to_convert[j], item) =>
                    Cardinality(ManifestEntries(item,
                                    call.cit_to_convert[i].original_components)) = 1

\* C5 (amended): the manifest has, for every item id and predicate of the ledger,
\* exactly one entry per distinct target item-definition reference the ledger
\* gives them: two rule files of the same item id and components are merged into
\* one entry when they target the same item definition, and stay two entries when
\* they target different ones.
C5_OneEntryPerTarget ==
    h.manifest # None =>
        LET all == AllConversions(h, call.cit_to_convert, 1)
        IN  /\ \A n \in 1..Len(all) :
                  LET same == { m \in 1..Len(all) :
                                  /\ all[m].item = all[n].item
                                  /\ SeqToSet(all[m].original_components)
                                        = SeqToSet(all[n].original_components) }
                      entries == { k \in 1..Len(Manifest) :
                                     /\ Manifest[k].item = all[n].item
                                     /\ SeqToSet(Manifest[k].original_components)
                                           = SeqToSet(all[n].original_components) }
                  IN  /\ Cardinality(entries)
                            = Cardinality({Field(all[m], "target_item_def") : m \in same})
                      /\ {Field(Manifest[k], "target_item_def") : k \in entries}
                            = {Field(all[m], "target_item_def") : m \in same}
            /\ \A k \in 1..Len(Manifest) :
                  \E n \in 1..Len(all) :
                      /\ Manifest[k].item = all[n].item
                      /\ Field(Manifest[k], "target_item_def") = Field(all[n], "target_item_def")
                      /\ SeqToSet(Manifest[k].original_components)
                            = SeqToSet(all[n].original_components)

\* two differently named rule files, same item id and components, same target:
\* one entry
C5_Witness ==
    /\ h.manifest # None
    /\ \E i, j \in 1..Len(call.cit_to_convert) :
          /\ SameItemAndPredicate(call.cit_to_convert[i], call.cit_to_convert[j], Stick)
          /\ call.cit_to_convert[i].cit_name # call.cit_to_convert[j].cit_name
          /\ call.cit_to_convert[i].original_components # <<>>
          /\ Ledger(call.cit_to_convert[i])[1].target_item_def
                = Ledger(call.cit_to_convert[j])[1].target_item_def
          /\ Cardinality(ManifestEntries(Stick, call.cit_to_convert[i].original_components)) = 1

(***************************************************************************)
(* Runs over the stack-size group of rod, in every discovery order         *)
(***************************************************************************)
StackFiles == {PngFile(DirA, <<"t">>)}

StackRule(name, stack_size) ==
    Rule(PropertiesFile(DirA, name), <<Items(<<Stick>>), Texture(<<>>, <<"t">>)>> \o stack_size)

\* rod_10 is always there; rod, rod_5 and a file of another base name may be
StackBases ==
    { <<>>,
      <<StackRule(<<"rod">>, <<StackSize(<<IntPart(1), IntPart(5)>>)>>)>>,
      <<StackRule(<<"rod">>, <<StackSize(<<IntPart(1)>>)>>)>> }
StackFives ==
    { <<>>,
      <<StackRule(<<"rod", "5">>, <<StackSize(<<IntPart(5)>>)>>)>>,
      <<StackRule(<<"rod", "5">>, <<StackSize(<<TextPart>>)>>)>>,
      <<StackRule(<<"rod", "5">>, <<>>)>> }
StackOthers ==
    { <<>>,
      <<StackRule(<<"rod", "x">>, <<StackSize(<<IntPart(2)>>)>>)>>,
      <<StackRule(<<"rod", "x", "5">>, <<StackSize(<<IntPart(2)>>)>>)>> }

\* the orders in which the directory listing may give the files
Orders(rules) ==
    { [i \in 1..Len(rules) |-> rules[p[i]]]
        : p \in { q \in [1..Len(rules) -> 1..Len(rules)] :
                    \A i, j \in 1..Len(rules) : q[i] = q[j] => i = j } }

StackPacks ==
    UNION { { MkPack(StackFiles, <<>>, rules, NoMapping)
                : rules \in Orders(<<StackRule(<<"rod", "10">>, <<StackSize(<<IntPart(10)>>)>>)>>
                                   \o b \o f \o o) }
            : b \in StackBases, f \in StackFives, o \in StackOthers }

InitStack == InitRun(StackPacks)

SpecStack == InitStack /\ [][NextRun]_vars

\* the base name of the group of a rule file: the name without its numeric suffix
GroupBase(stem) == IF Len(stem) >= 2 /\ IsInt(Last(stem)) THEN Front(stem) ELSE stem

\* the stack size a rule file declares, None when it declares none or an invalid one
DeclaredThreshold(path) ==
    IF HasKey(pack.props[path], Key("stackSize", <<>>))
    THEN StackThreshold(Lookup(pack.props[path], Key("stackSize", <<>>)))
    ELSE None

\* the records of the group of base: <base>.properties and the siblings
\* <base>_<int>.properties, that declare a valid stack size
GroupMembers(dir, base) ==
    { path \in DOMAIN pack.props :
        /\ path.dir = dir
        /\ \/ path.stem = base
           \/ Len(path.stem) = Len(base) + 1 /\ GroupBase(path.stem) = base
        /\ DeclaredThreshold(path) # None }

\* the entry of a member: its own model at its threshold
GroupEntry(path) ==
    [ model |-> ModelDef(get_item_model_ref(DefaultOrganization,
                                            GenericOutputName(<<"stick">>, path.stem, <<>>))).model,
      threshold |-> The(DeclaredThreshold(path)) ]

\* an item definition the last step wrote
WrittenDefinition(file) ==
    /\ file.kind = "items"
    /\ (file \notin DOMAIN ret.pre.writes \/ h.writes[file] # ret.pre.writes[file])

\* cit.convert() of a record with a stack size wrote the item definition of its group
GroupWritten ==
    /\ Converted
    /\ ret.exc = NoError
    /\ Failing(ConvertedCit) = {}
    /\ ConvertedCit.keys.has_stack_size
    /\ \E file \in DOMAIN h.out : WrittenDefinition(file)

\* what it wrote
GroupDefinition == h.out[CHOOSE file \in DOMAIN h.out : WrittenDefinition(file)]

\* C6: the item definition written for a stack-size group is a range_dispatch on
\* count, not normalized, without fallback, whose entries are exactly the records
\* of the group (<base> and <base>_<int>) that declare a valid stack size, each at
\* its threshold, in ascending order of threshold, whatever the discovery order.
C6_GroupDispatch ==
    GroupWritten =>
        LET members == GroupMembers(ConvertedCit.property_file_path.dir,
                                    GroupBase(ConvertedCit.cit_name))
            definition == GroupDefinition.model
        IN  /\ DOMAIN definition = {"type", "property", "normalize", "entries"}
            /\ definition.type = "range_dispatch"
            /\ definition.property = "count"
            /\ definition.normalize = FALSE
            /\ Len(definition.entries) = Cardinality(members)
            /\ SeqToSet(definition.entries) = {GroupEntry(path) : path \in members}
            /\ \A k, l \in 1..Len(definition.entries) :
                  k < l => definition.entries[k].threshold < definition.entries[l].threshold

(***************************************************************************)
(* Runs over one bow record with every combination of declared variants    *)
(***************************************************************************)
\* a/t.png and b/t.png share a stem; a/bad.json names a texture that is nowhere
BowFiles ==
    { PngFile(DirA, <<"t">>), PngFile(DirA, <<"s">>), PngFile(DirB, <<"t">>),
      JsonFile(DirA, <<"m">>), JsonFile(DirA, <<"bad">>) }
BowJson ==
    [f \in {JsonFile(DirA, <<"m">>), JsonFile(DirA, <<"bad">>)} |->
        IF f.stem = <<"bad">>
        THEN Json(None, Textures(<<[key |-> "layer0", ref |-> LocalRef(<<"missing">>)]>>))
        ELSE Json(None, NoTextures)]

Standby == <<"bow", "standby">>
Pulling(n) == <<"bow", "pulling", n>>

BowItems == {<<Items(<<Bow>>)>>, <<Items(<<Bow, Stick>>)>>, <<Items(<<Stick, Bow>>)>>}
BowDefaultModels == {<<>>, <<Model(<<>>, <<"m">>)>>, <<Model(<<>>, <<"bad">>)>>}
BowDefaultTextures == {<<>>, <<Texture(<<>>, <<"t">>)>>}
BowStandbys == {<<>>, <<Texture(Standby, <<"s">>)>>}
BowPlains == {<<>>, <<Texture(<<"bow">>, <<"s">>)>>}
BowPulling0s == {<<>>, <<Texture(Pulling("0"), <<"t">>)>>}
BowPulling1s == {<<>>, <<Texture(Pulling("1"), <<"t">>)>>}
BowPulling1Models == {<<>>, <<Model(Pulling("1"), <<"m">>)>>}
\* b/t collides when a/t.png was registered by a variant before
BowPulling2s ==
    { <<>>, <<Texture(Pulling("2"), <<"t">>)>>,
      <<Entry(Key("texture", Pulling("2")), RefValue(Ref(None, <<"b">>, <<"t">>, <<>>)))>> }

BowPacks ==
    { MkPack(BowFiles, BowJson,
             <<Rule(PropertiesFile(DirA, <<"mybow">>),
                    it \o dm \o dt \o sb \o pl \o p0 \o p1 \o m1 \o p2)>>,
             NoMapping)
        : it \in BowItems, dm \in BowDefaultModels, dt \in BowDefaultTextures,
          sb \in BowStandbys, pl \in BowPlains, p0 \in BowPulling0s, p1 \in BowPulling1s,
          m1 \in BowPulling1Models, p2 \in BowPulling2s }

InitBow == InitRun(BowPacks)

SpecBow == InitBow /\ [][NextRun]_vars

\* cit.convert() of a bow record that passed validation has returned
BowSynthesized ==
    /\ Converted
    /\ ret.exc = NoError
    /\ Failing(ConvertedCit) = {}
    /\ InItemList(ConvertedCit, <<"bow">>)
    /\ ~ConvertedCit.keys.has_stack_size

\* the model file a variant is converted from: its own, else the default one
VariantModel(cit, sfx) ==
    IF HasKey(cit.properties, Key("model", sfx))
    THEN Lookup(cit.properties, Key("model", sfx)).ref
    ELSE IF HasKey(cit.properties, Key("model", <<>>))
    THEN Lookup(cit.properties, Key("model", <<>>)).ref
    ELSE None

\* the reference a variant resolves to: the converted model of its model file
\* under the variant's name, else the model generated for its texture, else none
VariantReference(cit, sfx) ==
    IF VariantModel(cit, sfx) # None
    THEN Some(Ref(Some("default"), <<"item">>, The(VariantModel(cit, sfx)).stem \o sfx, <<>>))
    ELSE IF HasKey(cit.properties, Key("texture", sfx))
    THEN Some(Ref(Some("default"), <<"item">>,
                  cit.cit_name \o <<"from">> \o The(cit.item_list)[1].name \o sfx, <<>>))
    ELSE None

BuiltinBow == [type |-> "model", model |-> Ref(None, <<"item">>, <<"bow">>, <<>>)]

\* node is what the definition holds for the variant: its converted reference
\* when it resolves, item/bow when it does not; a variant whose conversion raised
\* an error that was recorded for the record does not resolve
VariantNode(cit, sfx, node) ==
    IF VariantReference(cit, sfx) = None THEN node = BuiltinBow
    ELSE \/ node = [type |-> "model", model |-> The(VariantReference(cit, sfx))]
         \/ /\ node = BuiltinBow
            /\ cit.property_file_path \in DOMAIN h.cit_with_json_model_error

\* the standby variant is bow_standby, else the variant named bow
StandbyNode(cit, node) ==
    IF VariantReference(cit, Standby) # None
    THEN \/ VariantNode(cit, Standby, node)
         \/ /\ cit.property_file_path \in DOMAIN h.cit_with_json_model_error
            /\ VariantNode(cit, <<"bow">>, node)
    ELSE VariantNode(cit, <<"bow">>, node)

BowItemDefinition(cit) == h.out[get_item_def_path(DefaultOrganization, cit.cit_name)]

ExtensionWord(e) ==
    CASE e = ".properties" -> "properties"
      [] e = ".png" -> "png"
      [] e = ".json" -> "json"

RECURSIVE ExtensionText(_)
ExtensionText(ext) ==
    IF ext = <<>> THEN <<>>
    ELSE <<".", ExtensionWord(ext[1])>> \o ExtensionText(Tail(ext))

\* abs_path.relative_to(pack_hb): None when it raises ValueError
RelativeTo(path) ==
    IF Len(path.dir) >= 1 /\ path.dir[1] = PackRoot[1]
    THEN Some(Joined(Tail(path.dir), "/") \o (IF Len(path.dir) > 1 THEN <<"/">> ELSE <<>>)
                \o Joined(path.stem, "_") \o ExtensionText(path.ext))
    ELSE None

\* str.replace('\\', '/')
RECURSIVE BackslashToSlash(_)
BackslashToSlash(s) ==
    IF s = <<>> THEN <<>>
    ELSE <<IF s[1] = "\\" THEN "/" ELSE s[1]>> \o BackslashToSlash(Tail(s))

\* str.replace('//', '/'): one pass from the left, occurrences do not overlap
RECURSIVE CollapseSlashes(_)
CollapseSlashes(s) ==
    IF s = <<>> THEN <<>>
    ELSE IF Len(s) >= 2 /\ s[1] = "/" /\ s[2] = "/"
    THEN <<"/">> \o CollapseSlashes(Tail(Tail(s)))
    ELSE <<s[1]>> \o CollapseSlashes(Tail(s))

\* str.rstrip('/')
RECURSIVE RStripSlash(_)
RStripSlash(s) ==
    IF s # <<>> /\ Last(s) = "/" THEN RStripSlash(Front(s)) ELSE s

\* canonical(p) of Organization.match
canonical(s) == RStripSlash(CollapseSlashes(BackslashToSlash(s)))

\* the pattern a string compiles to: "\\" with the piece after it is that piece
\* taken literally, ".*" any text, "." any one character, the rest itself
RECURSIVE Compile(_)
Compile(s) ==
    IF s = <<>> THEN <<>>
    ELSE IF s[1] = "\\" /\ Len(s) >= 2
    THEN <<[kind |-> "literal", piece |-> s[2]]>> \o Compile(Tail(Tail(s)))
    ELSE IF s[1] = "." /\ Len(s) >= 2 /\ s[2] = "*"
    THEN <<[kind |-> "star", piece |-> ""]>> \o Compile(Tail(Tail(s)))
    ELSE IF s[1] = "."
    THEN <<[kind |-> "any", piece |-> ""]>> \o Compile(Tail(s))
    ELSE <<[kind |-> "literal", piece |-> s[1]]>> \o Compile(Tail(s))

RECURSIVE Matches(_, _, _, _)
Matches(pattern, text, i, j) ==
    IF i > Len(pattern) THEN j > Len(text)
    ELSE IF pattern[i].kind = "star"
    THEN \/ Matches(pattern, text, i + 1, j)
         \/ j <= Len(text) /\ Matches(pattern, text, i, j + 1)
    ELSE /\ j <= Len(text)
         /\ IF pattern[i].kind = "any" THEN Len(text[j]) = 1 ELSE text[j] = pattern[i].piece
         /\ Matches(pattern, text, i + 1, j + 1)

\* re.fullmatch(pattern, text) is not None
fullmatch(s, text) == Matches(Compile(s), text, 1, 1)

\* the paths the router is asked about: rule files and a texture of the pack,
\* a rule file of another tree, and the output name of a generated model
RouterPaths ==
    { PropertiesFile(DirA, <<"foo">>), PropertiesFile(DirB, <<"foo">>), PngFile(DirA, <<"t">>),
      PropertiesFile(<<"OTHER", "assets", "minecraft", "optifine", "cit", "a">>, <<"foo">>),
      Path(<<>>, <<"foo", "from", "stick">>, <<>>) }

\* Organization(mapping, isRegex): the rule, with the paths its match() accepts
Organization_init(mapping, isRegex) ==
    [ paths |-> { path \in RouterPaths :
                    /\ RelativeTo(path) # None
                    /\ IF isRegex
                       THEN fullmatch(canonical(mapping.original_path),
                                      canonical(The(RelativeTo(path))))
                       ELSE canonical(The(RelativeTo(path))) = canonical(mapping.original_path) },
      ns |-> mapping.target_namespace,
      prefix |-> mapping.target_ressource_root_relative_path ]

\* load_organization: the two lists of the configuration, in its order
load_organization(data) ==
    [ file_mapping |->
          [i \in 1..Len(data.file_mapping) |-> Organization_init(data.file_mapping[i], FALSE)],
      file_mapping_regex |->
          [i \in 1..Len(data.file_mapping_regex) |->
              Organization_init(data.file_mapping_regex[i], TRUE)] ]

Mapping(original_path, ns) ==
    [ original_path |-> original_path, target_namespace |-> ns,
      target_ressource_root_relative_path |-> <<"cit">> ]

CitText == <<"assets", "/", "minecraft", "/", "optifine", "/", "cit", "/">>

\* .*   .*\.properties   .*.properties   assets/minecraft/optifine/cit/a/.*   .*/
RouterPatterns ==
    { <<".", "*">>,
      <<".", "*", "\\", ".", "properties">>,
      <<".", "*", ".", "properties">>,
      CitText \o <<"a", "/", ".", "*">>,
      <<".", "*", "/">> }

\* a/foo.properties   b/foo.properties   a//foo.properties/
RouterExacts ==
    { CitText \o <<"a", "/", "foo", ".", "properties">>,
      CitText \o <<"b", "/", "foo", ".", "properties">>,
      CitText \o <<"a", "/", "/", "foo", ".", "properties", "/">> }

UpToTwo(S) == {<<>>} \cup {<<x>> : x \in S} \cup {<<x, y>> : x \in S, y \in S}

\* every rule has a target namespace of its own
RouterConfigurations ==
    { [ file_mapping_regex |->
            [i \in 1..Len(patterns) |-> Mapping(patterns[i], IF i = 1 THEN "r1" ELSE "r2")],
        file_mapping |->
            [i \in 1..Len(exacts) |-> Mapping(exacts[i], IF i = 1 THEN "e1" ELSE "e2")] ]
        : patterns \in UpToTwo(RouterPatterns), exacts \in UpToTwo(RouterExacts) }

InitRouter ==
    /\ \E data \in RouterConfigurations, path \in RouterPaths :
          /\ pack = [ data |-> data,
                      file_mapping |-> load_organization(data).file_mapping,
                      file_mapping_regex |-> load_organization(data).file_mapping_regex ]
          /\ call = [op |-> "get_organization", primary_path |-> path]
    /\ h = EmptyHeap
    /\ pc = "call"
    /\ ret = None

Route ==
    /\ pc = "call"
    /\ ret' = Some(get_organization(pack, call.primary_path))
    /\ pc' = "returned"
    /\ UNCHANGED <<pack, h, call>>

NextRouter == Route

SpecRouter == InitRouter /\ [][NextRouter]_vars

\* the rules of a list that match the path of the call: a regex rule when its
\* pattern fully matches the path relative to the pack root, an exact rule when
\* it names that path
MatchingRegexRules ==
    { i \in 1..Len(pack.data.file_mapping_regex) :
        /\ RelativeTo(call.primary_path) # None
        /\ fullmatch(pack.data.file_mapping_regex[i].original_path,
                     The(RelativeTo(call.primary_path))) }
MatchingExactRules ==
    { i \in 1..Len(pack.data.file_mapping) :
        /\ RelativeTo(call.primary_path) # None
        /\ canonical(pack.data.file_mapping[i].original_path)
              = The(RelativeTo(call.primary_path)) }

RouterOf(mapping) ==
    [ns |-> mapping.target_namespace, prefix |-> mapping.target_ressource_root_relative_path]
First(S) == CHOOSE i \in S : \A j \in S : i <= j

\* C11: the router returned for a path is the first regex rule, in configuration
\* order, that fully matches the path relative to the pack root if one does,
\* otherwise the first exact rule that matches, otherwise the default router
\* (namespace "default", prefix "."); an exact rule is never chosen when a regex
\* rule matches, and a path outside the pack root gets the default router.
C11_FirstMatchWins ==
    pc = "returned" =>
        /\ The(ret) = IF MatchingRegexRules # {}
                      THEN RouterOf(pack.data.file_mapping_regex[First(MatchingRegexRules)])
                      ELSE IF MatchingExactRules # {}
                      THEN RouterOf(pack.data.file_mapping[First(MatchingExactRules)])
                      ELSE [ns |-> "default", prefix |-> <<>>]
        /\ RelativeTo(call.primary_path) = None => The(ret) = [ns |-> "default", prefix |-> <<>>]

(***************************************************************************)
(* Runs over armor records of one item id: the fields the merge fills      *)
(***************************************************************************)
LedgerFiles == {PngFile(DirA, <<"t">>)}

IronHelmet == Word(None, <<"iron", "helmet">>)
CustomData == Entry(Key("components", <<"custom", "data">>), Text("", "y"))

\* bow alone names no slot; a helmet or a chestplate before it names one
LedgerItems == {<<Bow>>, <<IronHelmet, Bow>>, <<IronChestplate, Bow>>}
\* a layer texture gives an equipment definition, a default texture none
LedgerTextures == {<<Texture(<<"iron", "layer", "1">>, <<"t">>)>>, <<Texture(<<>>, <<"t">>)>>}
\* the same two components in both orders, or none
LedgerComponents == {<<>>, <<CustomName(""), CustomData>>, <<CustomData, CustomName("")>>}

ArmorRule(name, items, texture, components) ==
    Rule(PropertiesFile(DirA, name), <<Type("armor"), Items(items)>> \o texture \o components)

\* a third record: another armor, or the icon of foo
LedgerThirds ==
    { <<>>,
      <<ArmorRule(<<"baz">>, <<IronHelmet, Bow>>, <<Texture(<<"iron", "layer", "1">>, <<"t">>)>>,
                  <<>>)>>,
      <<Rule(PropertiesFile(DirA, <<"foo", "icon">>), <<Items(<<Bow>>), Texture(<<>>, <<"t">>)>>)>> }

LedgerPacks ==
    UNION { { MkPack(LedgerFiles, <<>>, rules, NoMapping)
                : rules \in Orders(<<ArmorRule(<<"foo">>, i1, t1, c1),
                                     ArmorRule(<<"bar">>, i2, t2, c2)>> \o third) }
            : i1 \in LedgerItems, i2 \in LedgerItems, t1 \in LedgerTextures,
              t2 \in LedgerTextures, c1 \in LedgerComponents, c2 \in LedgerComponents,
              third \in LedgerThirds }

InitLedger == InitRun(LedgerPacks)

SpecLedger == InitLedger /\ [][NextRun]_vars

\* the entries of the ledger, in processing order
LedgerEntries == AllConversions(h, call.cit_to_convert, 1)

\* the entries that share the key of entry n: item id, target item definition,
\* and the components whatever their order
SameKey(n) ==
    { m \in 1..Len(LedgerEntries) :
        /\ LedgerEntries[m].item = LedgerEntries[n].item
        /\ Field(LedgerEntries[m], "target_item_def") = Field(LedgerEntries[n], "target_item_def")
        /\ SeqToSet(LedgerEntries[m].original_components)
              = SeqToSet(LedgerEntries[n].original_components) }

\* the entries of the manifest with the key of entry n
ManifestOf(n) ==
    { k \in 1..Len(Manifest) :
        /\ Manifest[k].item = LedgerEntries[n].item
        /\ Field(Manifest[k], "target_item_def") = Field(LedgerEntries[n], "target_item_def")
        /\ SeqToSet(Manifest[k].original_components)
              = SeqToSet(LedgerEntries[n].original_components) }

\* the first value that is not null among the entries of a key, null when all are
FirstArmorDef(n) ==
    LET set == {m \in SameKey(n) : Field(LedgerEntries[m], "target_armor_def") # None}
    IN  IF set = {} THEN None ELSE Field(LedgerEntries[First(set)], "target_armor_def")
FirstArmorSlot(n) ==
    LET set == {m \in SameKey(n) : Field(LedgerEntries[m], "target_armor_slot") # None}
    IN  IF set = {} THEN None ELSE Field(LedgerEntries[First(set)], "target_armor_slot")

\* C12: the ledger entries that share the key (item id, target item-definition
\* reference, components compared whatever the order of their keys) are one
\* entry of the manifest, whose armor-definition reference and armor slot are,
\* each on its own, the first non-null value in processing order: a value that
\* is set is not overwritten by a later entry.
C12_FirstNonNullKept ==
    h.manifest # None =>
        /\ \A n \in 1..Len(LedgerEntries) :
              /\ Cardinality(ManifestOf(n)) = 1
              /\ \A k \in ManifestOf(n) :
                    /\ Field(Manifest[k], "target_armor_def") = FirstArmorDef(n)
                    /\ Field(Manifest[k], "target_armor_slot") = FirstArmorSlot(n)
        /\ \A k \in 1..Len(Manifest) : \E n \in 1..Len(LedgerEntries) : k \in ManifestOf(n)

\* two entries of one key with components in different orders and different
\* equipment definitions, the earlier without a slot: the manifest entry has the
\* equipment definition of the earlier and the slot of the later
C12_Witness ==
    /\ h.manifest # None
    /\ \E n, m \in 1..Len(LedgerEntries) :
          /\ n < m
          /\ m \in SameKey(n)
          /\ LedgerEntries[n].original_components # LedgerEntries[m].original_components
          /\ Field(LedgerEntries[n], "target_armor_def") # None
          /\ Field(LedgerEntries[m], "target_armor_def") # None
          /\ Field(LedgerEntries[n], "target_armor_def") # Field(LedgerEntries[m], "target_armor_def")
          /\ Field(LedgerEntries[n], "target_armor_slot") = None
          /\ Field(LedgerEntries[m], "target_armor_slot") # None
          /\ \E k \in ManifestOf(n) :
                /\ Field(Manifest[k], "target_armor_def") = Field(LedgerEntries[n], "target_armor_def")
                /\ Field(Manifest[k], "target_armor_slot") = Field(LedgerEntries[m], "target_armor_slot")

\* C13: in every entry of the written manifest no key has a null value, and the
\* key is_elytra is there only in entries that have the key target_armor_def.
C13_NoNullValue ==
    h.manifest # None =>
        \A k \in 1..Len(Manifest) :
            /\ \A key \in DOMAIN Manifest[k] \cap OptionalKeys : Manifest[k][key] # None
            /\ "is_elytra" \in DOMAIN Manifest[k] => "target_armor_def" \in DOMAIN Manifest[k]

\* a manifest with an entry that has an equipment definition and is_elytra but
\* neither item definition nor slot, and an entry that has none of the four
C13_Witness ==
    /\ h.manifest # None
    /\ \E k, l \in 1..Len(Manifest) :
          /\ DOMAIN Manifest[k] = {"item", "original_components", "target_armor_def", "is_elytra"}
          /\ DOMAIN Manifest[l] = {"item", "original_components", "target_armor_slot"}

(***************************************************************************)
(* Runs over a stack-size group of which a variant may fail                *)
(***************************************************************************)
\* a/t.png and b/t.png share a stem
GroupFiles == {PngFile(DirA, <<"t">>), PngFile(DirB, <<"t">>), PngFile(DirA, <<"u">>)}

\* the texture of a variant: a/t, b/t, a/u, or one that is nowhere
GroupTextures ==
    { <<Texture(<<>>, <<"t">>)>>,
      <<Entry(Key("texture", <<>>), RefValue(Ref(None, <<"b">>, <<"t">>, <<>>)))>>,
      <<Texture(<<>>, <<"u">>)>>,
      <<Texture(<<>>, <<"missing">>)>> }

GroupRule(name, texture, stack_size) ==
    Rule(PropertiesFile(DirA, name), <<Items(<<Stick>>)>> \o texture \o <<StackSize(<<IntPart(stack_size)>>)>>)

\* rod_5 and rod_10 with any texture, with or without rod, in every discovery order
GroupPacks ==
    UNION { { MkPack(GroupFiles, <<>>, rules, NoMapping)
                : rules \in Orders(<<GroupRule(<<"rod", "5">>, t5, 5),
                                     GroupRule(<<"rod", "10">>, t10, 10)>> \o base) }
            : t5 \in GroupTextures, t10 \in GroupTextures,
              base \in {<<>>, <<GroupRule(<<"rod">>, <<Texture(<<>>, <<"u">>)>>, 1)>>} }

InitGroup == InitRun(GroupPacks)

SpecGroup == InitGroup /\ [][NextRun]_vars

\* the retained variants of the group of the converted record, by threshold
RetainedVariants ==
    LET v == CitVariants(pack, ret.pre,
                         Variants(pack, ConvertedCit.property_file_path,
                                  RSplitHead(ConvertedCit.cit_name)), 1, <<>>)
    IN  SortByThreshold(v.val, v.h.stack_size_threshold, 1, <<>>)

\* what each of them synthesizes to: None when it fails
Synthesized ==
    ModelDefs(pack, ret.pre, RetainedVariants, The(ConvertedCit.organization), MaxDepth, 1, <<>>).val

\* cit.convert() of a record with a stack size has returned, and a retained
\* variant of its group failed to synthesize
GroupFailed ==
    /\ Converted
    /\ ret.exc = NoError
    /\ Failing(ConvertedCit) = {}
    /\ ConvertedCit.keys.has_stack_size
    /\ \E i \in 1..Len(Synthesized) : Synthesized[i] = None

\* the texture and the generated model of a variant are in the output tree and
\* in the registries
VariantAssetsKept(cit) ==
    LET texture == The(PathGet(cit.vals.original_png_texture_files_paths, <<>>))
        name == GenericOutputName(<<"stick">>, cit.cit_name, <<>>)
    IN  /\ OutFile(DefaultOrganization, "textures/item", texture.stem, <<".png">>) \in DOMAIN h.out
        /\ get_item_model_path(DefaultOrganization, name) \in DOMAIN h.out
        /\ texture \in h.png_instances
        /\ h.png_file_names[texture.stem] = texture
        /\ [item |-> <<"stick">>, props |-> cit.cit_name, suffix |-> <<>>]
              \in DOMAIN h.generic_instances
        /\ h.jm_file_names[name] = Path(<<>>, name, <<>>)

\* C14: when a retained variant of a stack-size group fails to synthesize, no
\* item definition is written for the group and the triggering record adds no
\* ledger entry, while the model and texture files of the variants that did
\* synthesize are in the output tree and the registries keep their entries:
\* nothing that was there before is taken back.
C14_NoDefinitionNoRollback ==
    GroupFailed =>
        /\ \A file \in DOMAIN h.out : ~WrittenDefinition(file)
        /\ ConversionsOf(h, ConvertedCit.property_file_path)
              = ConversionsOf(ret.pre, ConvertedCit.property_file_path)
        /\ \A i \in 1..Len(Synthesized) :
              Synthesized[i] # None => VariantAssetsKept(RetainedVariants[i])
        /\ \A file \in DOMAIN ret.pre.out : file \in DOMAIN h.out
        /\ ret.pre.png_instances \subseteq h.png_instances
        /\ DOMAIN ret.pre.generic_instances \subseteq DOMAIN h.generic_instances

\* the group of rod_5 (a/t.png) and rod_10 (b/t.png) converted first: rod_5
\* synthesizes and its model is written by this conversion, rod_10 fails
C14_Witness ==
    /\ GroupFailed
    /\ ret.pre.out = EmptyMap
    /\ Len(Synthesized) = 2
    /\ Synthesized[1] # None
    /\ Synthesized[2] = None
    /\ get_item_model_path(DefaultOrganization, <<"rod", "5", "from", "stick">>) \in DOMAIN h.out
    /\ RetainedVariants[2].property_file_path \in DOMAIN h.cit_with_json_model_error

(***************************************************************************)
(* Runs over an _nbt rule file and its base file, routed apart or together *)
(***************************************************************************)
NbtFiles == {PngFile(DirA, <<"t">>)}

NbtItems == {<<Stick>>, <<Stick, Bow>>}
\* no texture, one that resolves, one that is nowhere
NbtTextures == {<<>>, <<Texture(<<>>, <<"t">>)>>, <<Texture(<<>>, <<"missing">>)>>}

NbtRules ==
    { Rule(PropertiesFile(DirA, <<"foo", "nbt">>), <<Items(items)>> \o texture \o components)
        : items \in NbtItems, texture \in NbtTextures, components \in {<<>>, <<CustomName("")>>} }

\* the base file: a plain item, an armor, or a file that declares nothing
NbtBases ==
    { Rule(PropertiesFile(DirA, <<"foo">>), <<Items(<<Stick>>), Texture(<<>>, <<"t">>)>>),
      Rule(PropertiesFile(DirA, <<"foo">>),
           <<Type("armor"), Items(<<IronChestplate>>), Texture(<<"iron", "layer", "1">>, <<"t">>)>>),
      Rule(PropertiesFile(DirA, <<"foo">>), <<>>) }

RouteTo(paths, ns) == [paths |-> paths, ns |-> ns, prefix |-> <<"cit">>]

\* no rule; an exact rule for the base file, for the _nbt file, for each; a regex
\* rule for both
NbtRoutings ==
    { NoMapping,
      [file_mapping_regex |-> <<>>,
       file_mapping |-> <<RouteTo({PropertiesFile(DirA, <<"foo">>)}, "base")>>],
      [file_mapping_regex |-> <<>>,
       file_mapping |-> <<RouteTo({PropertiesFile(DirA, <<"foo", "nbt">>)}, "nbt")>>],
      [file_mapping_regex |-> <<>>,
       file_mapping |-> <<RouteTo({PropertiesFile(DirA, <<"foo", "nbt">>)}, "nbt"),
                          RouteTo({PropertiesFile(DirA, <<"foo">>)}, "base")>>],
      [file_mapping_regex |->
           <<RouteTo({PropertiesFile(DirA, <<"foo">>), PropertiesFile(DirA, <<"foo", "nbt">>),
                      PngFile(DirA, <<"t">>)}, "both")>>,
       file_mapping |-> <<RouteTo({PropertiesFile(DirA, <<"foo", "nbt">>)}, "nbt")>>] }

NbtPacks ==
    { MkPack(NbtFiles, <<>>, IF baseFirst THEN <<base, nbt>> ELSE <<nbt, base>>, routing)
        : nbt \in NbtRules, base \in NbtBases, baseFirst \in BOOLEAN, routing \in NbtRoutings }

InitNbt == InitRun(NbtPacks)

SpecNbt == InitNbt /\ [][NextRun]_vars

\* the base file of the converted record
BaseFile ==
    Path(ConvertedCit.property_file_path.dir, Front(ConvertedCit.cit_name), <<".properties">>)

\* cit.convert() of an _nbt rule file that passed validation and whose base file
\* exists has returned
NbtWithBase ==
    /\ Converted
    /\ Len(ConvertedCit.cit_name) >= 2
    /\ Last(ConvertedCit.cit_name) = "nbt"
    /\ Failing(ConvertedCit) = {}
    /\ BaseFile \in pack.fs

\* the router the configuration gives a path: the first regex rule that holds
\* it, else the first exact rule, else the default router
RouterFor(path) ==
    LET regex == {i \in 1..Len(pack.file_mapping_regex) : path \in pack.file_mapping_regex[i].paths}
        exact == {i \in 1..Len(pack.file_mapping) : path \in pack.file_mapping[i].paths}
    IN  IF regex # {}
        THEN [ns |-> pack.file_mapping_regex[First(regex)].ns,
              prefix |-> pack.file_mapping_regex[First(regex)].prefix]
        ELSE IF exact # {}
        THEN [ns |-> pack.file_mapping[First(exact)].ns,
              prefix |-> pack.file_mapping[First(exact)].prefix]
        ELSE [ns |-> "default", prefix |-> <<>>]

\* the components of a rule file, as the file declares them
DeclaredComponents(path) ==
    LET props == pack.props[path]
        kept == {i \in 1..Len(props) : props[i].k.head = "components"}
    IN  IF kept = {} THEN <<>> ELSE <<props[First(kept)]>>

\* C15: the conversion of an _nbt rule file that passed validation and whose
\* base file exists writes no file and adds to the ledger exactly one entry per
\* item id, each targeting the item-definition reference of the base file (the
\* router of the base file, the stem of the base file), with the components of
\* the _nbt file and no equipment target.
C15_NbtPointsAtBase ==
    NbtWithBase =>
        /\ ret.exc = NoError
        /\ h.out = ret.pre.out
        /\ h.writes = ret.pre.writes
        /\ ConversionsOf(ret.pre, ConvertedCit.property_file_path) = <<>>
        /\ LET added == ConversionsOf(h, ConvertedCit.property_file_path)
               items == ItemsOf(pack.props[ConvertedCit.property_file_path])
           IN  /\ Len(added) = Len(items)
               /\ \A i \in 1..Len(items) :
                     /\ added[i].item = items[i]
                     /\ added[i].target_item_def
                           = Some(Ref(Some(RouterFor(BaseFile).ns), RouterFor(BaseFile).prefix,
                                      Front(ConvertedCit.cit_name), <<>>))
                     /\ added[i].original_components
                           = DeclaredComponents(ConvertedCit.property_file_path)
                     /\ added[i].target_armor_def = None
                     /\ added[i].target_armor_slot = None

\* foo_nbt lists two item ids, carries a component and is routed apart from foo,
\* whose item definition is not written: two entries pointing at base:cit/foo
C15_Witness ==
    /\ NbtWithBase
    /\ RouterFor(BaseFile) # RouterFor(ConvertedCit.property_file_path)
    /\ pack.props[BaseFile] = <<>>
    /\ Len(ConversionsOf(h, ConvertedCit.property_file_path)) = 2
    /\ ConversionsOf(h, ConvertedCit.property_file_path)[2].original_components # <<>>
    /\ ConversionsOf(h, ConvertedCit.property_file_path)[2].target_item_def
          = Some(Ref(Some("base"), <<"cit">>, <<"foo">>, <<>>))

(***************************************************************************)
(* Runs over an _icon rule file, with and without a base file              *)
(***************************************************************************)
IconFiles == {PngFile(DirA, <<"t">>), PngFile(DirA, <<"u">>)}

\* foo_icon: an item with or without a texture, or an armor
IconRules ==
    { Rule(PropertiesFile(DirA, <<"foo", "icon">>), <<Items(<<item>>)>> \o texture \o components)
        : item \in {Stick, Bow},
          texture \in {<<>>, <<Texture(<<>>, <<"t">>)>>, <<Texture(<<>>, <<"u">>)>>},
          components \in {<<>>, <<CustomName("")>>} }
    \cup
    { Rule(PropertiesFile(DirA, <<"foo", "icon">>),
           <<Type("armor"), Items(<<IronChestplate>>), Texture(<<"iron", "layer", "1">>, <<"t">>)>>) }

\* the base file: none, a/foo or models/foo, before or after foo_icon
IconBases ==
    { Rule(PropertiesFile(DirA, <<"foo">>), <<Items(<<Stick>>), Texture(<<>>, <<"t">>)>>),
      Rule(PropertiesFile(CitDir \o <<"models">>, <<"foo">>),
           <<Type("armor"), Items(<<IronChestplate>>), Texture(<<"iron", "layer", "1">>, <<"t">>)>>) }

IconPacks ==
    { MkPack(IconFiles, <<>>, <<icon>>, NoMapping) : icon \in IconRules }
    \cup
    { MkPack(IconFiles, <<>>, IF baseFirst THEN <<base, icon>> ELSE <<icon, base>>, NoMapping)
        : icon \in IconRules, base \in IconBases, baseFirst \in BOOLEAN }

InitIcon == InitRun(IconPacks)

SpecIcon == InitIcon /\ [][NextRun]_vars

\* cit.convert() of an _icon rule file that passed validation has returned
IconConverted ==
    /\ Converted
    /\ ret.exc = NoError
    /\ Len(ConvertedCit.cit_name) >= 2
    /\ Last(ConvertedCit.cit_name) = "icon"
    /\ Failing(ConvertedCit) = {}

\* a base file exists at one of the two conventional locations
IconBaseExists ==
    \/ Path(ConvertedCit.property_file_path.dir, Front(ConvertedCit.cit_name), <<".properties">>)
          \in pack.fs
    \/ Path(Front(ConvertedCit.property_file_path.dir) \o <<"models">>,
            Front(ConvertedCit.cit_name), <<".properties">>) \in pack.fs

\* C16: converting an _icon rule file writes no item definition, no model and no
\* texture and adds no ledger entry; all it may do is record the file in the
\* _icon orphan list, when no base file exists at either conventional location.
C16_IconOnlyMarker ==
    IconConverted =>
        /\ h.out = ret.pre.out
        /\ h.writes = ret.pre.writes
        /\ h.conversions = ret.pre.conversions
        /\ h.cit_icon_orphelin = IF IconBaseExists THEN ret.pre.cit_icon_orphelin
                                 ELSE Append(ret.pre.cit_icon_orphelin,
                                             ConvertedCit.property_file_path)

(***************************************************************************)
(* Runs over rule files that declare a stack size, alone and with siblings *)
(***************************************************************************)
ValidityFiles == {PngFile(DirA, <<"t">>)}

\* rod, rod_5, rod_10, big_rod, big_rod_5, big_rod_10, rod_x_5
ValidityNames ==
    << <<"rod">>, <<"rod", "5">>, <<"rod", "10">>, <<"big", "rod">>, <<"big", "rod", "5">>,
       <<"big", "rod", "10">>, <<"rod", "x", "5">> >>

\* up to three of them, each with a stack size
ValidityPacks ==
    { MkPack(ValidityFiles, <<>>,
             [n \in 1..Cardinality(chosen) |->
                 StackRule(ValidityNames[CHOOSE k \in chosen :
                                            Cardinality({l \in chosen : l <= k}) = n],
                           <<StackSize(<<IntPart(2)>>)>>)],
             NoMapping)
        : chosen \in {S \in SUBSET (1..Len(ValidityNames)) : Cardinality(S) \in 1..3} }

InitValidity == InitRun(ValidityPacks)

SpecValidity == InitValidity /\ [][NextRun]_vars

\* the name ends in _<integer>
NumericSuffix(stem) == Len(stem) >= 2 /\ Last(stem) \in {"1", "2", "5", "10"}

\* the rule files <name>_<integer>.properties next to a file, other than itself
NumberedSiblings(path, name) ==
    { other \in pack.fs :
        /\ other # path
        /\ other.dir = path.dir
        /\ other.ext = <<".properties">>
        /\ NumericSuffix(other.stem)
        /\ Front(other.stem) = name }

ValidGroup(path) ==
    IF NumericSuffix(path.stem)
    THEN \/ Path(path.dir, Front(path.stem), <<".properties">>) \in pack.fs
         \/ NumberedSiblings(path, Front(path.stem)) # {}
    ELSE NumberedSiblings(path, path.stem) # {}

\* C17: the stack-size group of a record that declares stackSize is valid, for a
\* file named <base>_<integer>, iff <base>.properties exists or another sibling
\* <base>_<integer> does, and for a file without numeric suffix, with or without
\* an underscore in its name, iff a sibling <name>_<integer> exists; an isolated
\* file is invalid.
C17_GroupValidity ==
    pc.phase # "start" =>
        \A i \in 1..Len(call.all_cits) :
            call.all_cits[i].keys.has_stack_size =>
                (call.all_cits[i].vals.has_invalid_stack_size_group
                    <=> ~ValidGroup(call.all_cits[i].property_file_path))

\* the record declares the bow_standby variant, the un-suffixed default variant
StandbyDeclared(cit) ==
    HasKey(cit.properties, Key("texture", Standby)) \/ HasKey(cit.properties, Key("model", Standby))
DefaultDeclared(cit) ==
    HasKey(cit.properties, Key("texture", <<>>)) \/ HasKey(cit.properties, Key("model", <<>>))

\* C18: the standby branch of a bow record is the bow_standby variant when it
\* resolves, else the default variant (un-suffixed model, un-suffixed texture)
\* when that resolves, and the built-in item/bow only when neither does: a bow
\* record that declares only a default texture that resolves does not get
\* item/bow as standby model.
C18_StandbyDefault ==
    (BowSynthesized /\ ConvertedCit.property_file_path \notin DOMAIN h.cit_with_json_model_error) =>
        LET standby == BowItemDefinition(ConvertedCit).model.on_false
        IN  /\ StandbyDeclared(ConvertedCit) => VariantNode(ConvertedCit, Standby, standby)
            /\ (StandbyDeclared(ConvertedCit) \/ DefaultDeclared(ConvertedCit))
                  <=> standby # BuiltinBow

(***************************************************************************)
(* The model registry on packs whose parent references form chains, some   *)
(* of them closed                                                          *)
(***************************************************************************)
CycleModels == AssetModels \cup {JsonFile(DirA, <<"y">>), JsonFile(DirB, <<"p">>)}

\* a/x.json -> itself, a/y.json or a/x_s.json; a/y.json -> a/x.json or a/x_s.json;
\* a/x_s.json -> a/x.json; b/x.json -> b/p.json; b/p.json -> b/x.json
CyclePacks ==
    { [ fs |-> CycleModels \cup AssetTextures,
        json |-> [f \in CycleModels |->
                    IF f = JsonFile(DirA, <<"x">>) THEN Json(px, NoTextures)
                    ELSE IF f = JsonFile(DirA, <<"y">>) THEN Json(py, NoTextures)
                    ELSE IF f = JsonFile(DirA, <<"x", "s">>) THEN Json(ps, NoTextures)
                    ELSE IF f = JsonFile(DirB, <<"x">>) THEN Json(pb, NoTextures)
                    ELSE Json(pp, NoTextures)],
        file_mapping_regex |-> <<>>,
        file_mapping |-> <<>> ]
      : px \in {None, Some(LocalRef(<<"x">>)), Some(LocalRef(<<"y">>)), Some(LocalRef(<<"x", "s">>))},
        py \in {None, Some(LocalRef(<<"x">>)), Some(LocalRef(<<"x", "s">>))},
        ps \in {None, Some(LocalRef(<<"x">>))},
        pb \in {Some(LocalRef(<<"p">>))},
        pp \in {None, Some(LocalRef(<<"x">>))} }

InitCycle ==
    /\ pack \in CyclePacks
    /\ h = EmptyHeap
    /\ pc = [phase |-> "calls", n |-> 0]
    /\ call = [op |-> NoCall, pre |-> EmptyHeap, prev |-> [op |-> NoCall, ret |-> NoReturn]]
    /\ ret = NoReturn

SpecCycle == InitCycle /\ [][NextAssets]_vars

\* the model file the parent reference of a model file resolves to, if any
ResolvableParent(pk, json_path) ==
    IF ReadJson(pk, json_path).valid /\ ReadJson(pk, json_path).parent # None
    THEN find_file_in_pack(pk.fs, json_path, The(ReadJson(pk, json_path).parent), ".json")
    ELSE None

\* the chain of resolvable parents from a model file ends within n steps
RECURSIVE ChainEnds(_, _, _)
ChainEnds(pk, json_path, n) ==
    \/ ResolvableParent(pk, json_path) = None
    \/ n > 0 /\ ChainEnds(pk, The(ResolvableParent(pk, json_path)), n - 1)

Acyclic(pk, json_path) == ChainEnds(pk, json_path, Cardinality(DOMAIN pk.json))

\* C19: constructing, validating or converting a model ends without exhausting
\* the recursion when the chain of resolvable parents from it is acyclic; when
\* the chain holds a cycle (a model that is its own parent included) the
\* construction never returns normally: it ends by RecursionError, or by the
\* output-name collision of two members, never by an error of its own for the
\* cycle, so that no model of such a chain is ever registered, validated again
\* or converted.
C19_TerminatesOnAcyclicChains ==
    /\ \A key \in h.jm_instances : Acyclic(pack, key.path)
    /\ call.op.op \in {"getJsonModel", "convert"} =>
          IF Acyclic(pack, The(call.op.path))
          THEN ret.exc = NoError \/ The(ret.exc).type # "RecursionError"
          ELSE /\ ret.exc # NoError
               /\ The(ret.exc).type = "RecursionError" \/ The(ret.exc).msg = "collision"
               /\ h.jm_instances = call.pre.jm_instances
               /\ h.out = call.pre.out

\* a/x.json is its own parent and getJsonModel on it ran out of recursion;
\* b/x.json -> b/p.json -> b/x.json did too
C19_Witness ==
    /\ call.op.op = "getJsonModel"
    /\ call.op.path = Some(JsonFile(DirB, <<"x">>))
    /\ ResolvableParent(pack, JsonFile(DirB, <<"p">>)) = Some(JsonFile(DirB, <<"x">>))
    /\ ret.exc # NoError
    /\ The(ret.exc).type = "RecursionError"
    /\ call.prev.op.op = "getJsonModel"
    /\ call.prev.op.path = Some(JsonFile(DirA, <<"x">>))
    /\ ResolvableParent(pack, JsonFile(DirA, <<"x">>)) = Some(JsonFile(DirA, <<"x">>))
    /\ call.prev.ret.exc # NoError
    /\ The(call.prev.ret.exc).type = "RecursionError"

(***************************************************************************)
(* Runs over records whose models have parent chains that may fail         *)
(* validation at any member                                                *)
(***************************************************************************)
OrderFiles ==
    { JsonFile(DirA, <<"m">>), JsonFile(DirA, <<"n">>), JsonFile(DirA, <<"p">>),
      JsonFile(DirA, <<"q">>), PngFile(DirA, <<"t">>) }

OrderMissing == Textures(<<[key |-> "layer0", ref |-> LocalRef(<<"missing">>)]>>)

\* m.json -> p.json, a built-in, or a parent that is nowhere; n.json -> p.json;
\* p.json -> q.json or nothing; each with textures that resolve or do not
OrderPacks ==
    UNION { { MkPack(OrderFiles,
                     [f \in {file \in OrderFiles : file.ext = <<".json">>} |->
                        IF f.stem = <<"m">> THEN Json(pm, tm)
                        ELSE IF f.stem = <<"n">> THEN Json(Some(LocalRef(<<"p">>)), tn)
                        ELSE IF f.stem = <<"p">> THEN Json(pp, tp)
                        ELSE Json(None, tq)],
                     rules, NoMapping)
                : rules \in Orders(<<Rule(PropertiesFile(DirA, <<"foo">>),
                                          <<Items(<<Stick>>), Model(<<>>, <<"m">>)>>),
                                     Rule(PropertiesFile(DirA, <<"bar">>),
                                          <<Items(<<Stick>>), Model(<<>>, <<"n">>)>>)>>) }
            : pm \in { None, Some(LocalRef(<<"p">>)), Some(LocalRef(<<"nowhere">>)),
                       Some(Ref(None, <<"item">>, <<"generated">>, <<>>)) },
              tm \in { NoTextures, Textures(<<[key |-> "layer0", ref |-> LocalRef(<<"t">>)]>>),
                       OrderMissing },
              tn \in {NoTextures, OrderMissing},
              pp \in {None, Some(LocalRef(<<"q">>))},
              tp \in {NoTextures, OrderMissing},
              tq \in {NoTextures, OrderMissing} }

InitOrder == InitRun(OrderPacks)

SpecOrder == InitOrder /\ [][NextRun]_vars

\* the model files of the chain of resolvable parents from a model file
RECURSIVE ChainMembers(_, _, _)
ChainMembers(pk, json_path, n) ==
    {json_path} \cup
        (IF n > 0 /\ ResolvableParent(pk, json_path) # None
         THEN ChainMembers(pk, The(ResolvableParent(pk, json_path)), n - 1)
         ELSE {})

\* what validation() asks of the file itself: it reads, its parent resolves or
\* is a built-in, its textures are absent or a dictionary of entries that
\* resolve or are accepted
ValidAlone(pk, json_path) ==
    LET model_data == ReadJson(pk, json_path)
    IN  /\ model_data.valid
        /\ \/ model_data.parent = None
           \/ ResolvableParent(pk, json_path) # None
           \/ AcceptedParent(The(model_data.parent))
        /\ \/ model_data.textures.kind = "absent"
           \/ /\ model_data.textures.kind = "dict"
              /\ TexturesValid(pk, json_path, model_data.textures.entries)

\* cit.convert() of a record with a model that passed the record validation has
\* returned: the conversion request of its model
ModelRequested ==
    /\ Converted
    /\ ret.exc = NoError
    /\ Failing(ConvertedCit) = {}
    /\ PathGet(ConvertedCit.vals.original_json_model_files_paths, <<>>) # None

RequestedModel == The(PathGet(ConvertedCit.vals.original_json_model_files_paths, <<>>))
RequestedChain == ChainMembers(pack, RequestedModel, Cardinality(DOMAIN pack.json))

ItemModelFile(json_path) ==
    get_item_model_path(get_organization(pack, json_path), OutputName(json_path.stem, <<>>))

\* the request wrote the file: it is new, or written once more than before
WrittenByRequest(file) ==
    /\ file \in DOMAIN h.writes
    /\ file \in DOMAIN ret.pre.writes => h.writes[file] # ret.pre.writes[file]

\* C20: in a conversion request of a model, the model and every resolvable
\* ancestor of its parent chain are validated, and registered, before any
\* item-model file of the chain is written: the construction that validates the
\* chain writes nothing, a file of the chain is written by the request only
\* when every member of the chain passes validation, and when the model or an
\* ancestor fails validation the request writes no item-model file of the chain.
C20_ValidationBeforeConversion ==
    ModelRequested =>
        LET validated == getJsonModel(pack, ret.pre, RequestedModel, <<>>, MaxDepth)
            valid == \A f \in RequestedChain : ValidAlone(pack, f)
        IN  /\ validated.h.out = ret.pre.out
            /\ validated.h.writes = ret.pre.writes
            /\ validated.exc = NoError <=> valid
            /\ valid => \A f \in RequestedChain : Asset(f, <<>>) \in validated.h.jm_instances
            /\ (\E f \in RequestedChain : WrittenByRequest(ItemModelFile(f))) => valid
            /\ ~valid => /\ \A f \in RequestedChain : ~WrittenByRequest(ItemModelFile(f))
                         /\ ConvertedCit.property_file_path \in DOMAIN h.cit_with_json_model_error
            /\ valid => \A f \in RequestedChain : WrittenByRequest(ItemModelFile(f))

\* bar (n.json -> p.json -> q.json) is converted after foo (m.json -> p.json)
\* wrote p.json and q.json; n.json fails validation, and the request of bar
\* writes none of n.json, p.json, q.json
C20_Witness ==
    /\ ModelRequested
    /\ RequestedModel = JsonFile(DirA, <<"n">>)
    /\ RequestedChain = {JsonFile(DirA, <<"n">>), JsonFile(DirA, <<"p">>), JsonFile(DirA, <<"q">>)}
    /\ ~ValidAlone(pack, JsonFile(DirA, <<"n">>))
    /\ ItemModelFile(JsonFile(DirA, <<"p">>)) \in DOMAIN ret.pre.out
    /\ ItemModelFile(JsonFile(DirA, <<"q">>)) \in DOMAIN ret.pre.out
    /\ ItemModelFile(JsonFile(DirA, <<"n">>)) \notin DOMAIN h.out
    /\ h.writes[ItemModelFile(JsonFile(DirA, <<"p">>))] = 1

\* the derived item-id list: self.properties['items'].split(' ')
ItemList(props) == Lookup(props, Key("items", <<>>)).words

\* C21: after normalization no id of the derived item-id list begins with the
\* prefix minecraft:, whether the items (or matchItems) value lists one id or
\* several.
C21_NoMinecraftPrefix ==
    (pc = "normalized" /\ HasKey(The(ret).properties, Key("items", <<>>))) =>
        \A i \in 1..Len(ItemList(The(ret).properties)) :
            ItemList(The(ret).properties)[i].ns # Some("minecraft")

\* C22: a model construction that raises, by output-name collision or by a
\* validation error, leaves the shared registries as they were: the instance
\* cache and the name table gain no entry for the failed model, so that a later
\* construction for another path with the same output name is not rejected
\* because of the failed one.
C22_FailedConstructionLeavesRegistries ==
    (call.op.op = "getJsonModel" /\ ret.exc # NoError) =>
        /\ h.jm_instances = call.pre.jm_instances
        /\ h.jm_file_names = call.pre.jm_file_names

\* the rule file is in a report category: a rejection list, the conversion-error
\* map, or an orphan list
InReport(hp, path) ==
    \/ \E j \in 1..Len(RejectionLists) : Occurrences(hp[RejectionLists[j]], path) > 0
    \/ path \in DOMAIN hp.cit_with_json_model_error
    \/ Occurrences(hp.cit_nbt_orphelin, path) > 0
    \/ Occurrences(hp.cit_icon_orphelin, path) > 0

RunEnded == pc.phase \in {"report", "done"}

\* C23: after the run every record that was selected for conversion has added
\* a ledger entry or has its rule file in a report category; none is dropped
\* silently.
C23_NoSilentDrop ==
    RunEnded =>
        \A i \in 1..Len(call.cit_to_convert) :
            \/ ConversionsOf(h, call.cit_to_convert[i].property_file_path) # <<>>
            \/ InReport(h, call.cit_to_convert[i].property_file_path)

\* the item-definition files that the conversion of the last record wrote
ItemDefinitionsWritten ==
    { file \in DOMAIN h.writes :
        /\ file.kind = "items"
        /\ file \in DOMAIN ret.pre.writes => h.writes[file] # ret.pre.writes[file] }

\* C24: a record whose rule file is in a report category (a rejection list, the
\* conversion-error map, an orphan list) adds no ledger entry and writes no
\* item-definition file, in every item category, bow included.
C24_ReportedProducesNothing ==
    (Converted /\ InReport(h, ConvertedCit.property_file_path)) =>
        /\ ConversionsOf(h, ConvertedCit.property_file_path) = <<>>
        /\ ItemDefinitionsWritten = {}

\* C25: every entry of the written manifest that carries target_armor_def also
\* carries the key is_elytra, the entries whose target_armor_def was filled in
\* from a later entry of the same merge key included.
C25_ArmorDefHasIsElytra ==
    h.manifest # None =>
        \A n \in 1..Len(Manifest) :
            "target_armor_def" \in DOMAIN Manifest[n] => "is_elytra" \in DOMAIN Manifest[n]

\* the references of the item-definition files of the output tree
WrittenItemDefinitions ==
    { get_item_def_ref([ns |-> file.ns, prefix |-> file.prefix], file.stem)
        : file \in {f \in DOMAIN h.out : f.kind = "items"} }

\* C26: every target_item_def of the written manifest is the reference of an
\* item-definition file that the run wrote to the output tree, the references
\* of _nbt records and of armor records with an _icon file included.
C26_NoDanglingTarget ==
    h.manifest # None =>
        \A n \in 1..Len(Manifest) :
            "target_item_def" \in DOMAIN Manifest[n] =>
                The(Manifest[n]["target_item_def"]) \in WrittenItemDefinitions

\* C27: every entry of the written manifest carries a target, an item
\* definition or an equipment definition; an armor or elytra record for which
\* no equipment definition is produced and that has no _icon file adds no
\* ledger entry.
C27_EveryEntryHasTarget ==
    h.manifest # None =>
        \A n \in 1..Len(Manifest) :
            \/ "target_item_def" \in DOMAIN Manifest[n]
            \/ "target_armor_def" \in DOMAIN Manifest[n]

(***************************************************************************)
(* Runs over rule files that share a stem, routed together or apart        *)
(***************************************************************************)
DuplicateFiles == {PngFile(DirA, <<"t">>), PngFile(DirB, <<"u">>)}

DuplicateFooA == Rule(PropertiesFile(DirA, <<"foo">>), <<Items(<<Stick>>), Texture(<<>>, <<"t">>)>>)
DuplicateFooB == Rule(PropertiesFile(DirB, <<"foo">>), <<Items(<<Bow>>), Texture(<<>>, <<"u">>)>>)
DuplicateBar == Rule(PropertiesFile(DirA, <<"bar">>), <<Items(<<Stick>>), Texture(<<>>, <<"t">>)>>)
\* baz_nbt without baz.properties: a record without router
DuplicateNbtA == Rule(PropertiesFile(DirA, <<"baz", "nbt">>), <<Items(<<Stick>>)>>)
DuplicateNbtB == Rule(PropertiesFile(DirB, <<"baz", "nbt">>), <<Items(<<Stick>>)>>)

DuplicateThirds ==
    {<<>>, <<DuplicateBar>>, <<DuplicateNbtA>>, <<DuplicateNbtA, DuplicateNbtB>>}

\* both foo under the default router; b/foo routed apart; both under one regex
\* rule; each under an exact rule of the same target
DuplicateRoutings ==
    { NoMapping,
      [file_mapping_regex |-> <<>>,
       file_mapping |-> <<RouteTo({PropertiesFile(DirB, <<"foo">>)}, "x")>>],
      [file_mapping_regex |->
           <<RouteTo({PropertiesFile(DirA, <<"foo">>), PropertiesFile(DirB, <<"foo">>)}, "both")>>,
       file_mapping |-> <<RouteTo({PropertiesFile(DirB, <<"foo">>)}, "x")>>],
      [file_mapping_regex |-> <<>>,
       file_mapping |-> <<RouteTo({PropertiesFile(DirA, <<"foo">>)}, "x"),
                          RouteTo({PropertiesFile(DirB, <<"foo">>)}, "x")>>] }

DuplicatePacks ==
    UNION { { MkPack(DuplicateFiles, <<>>, rules, routing)
                : rules \in Orders(<<DuplicateFooA, DuplicateFooB>> \o third) }
            : third \in DuplicateThirds, routing \in DuplicateRoutings }

InitDuplicate == InitRun(DuplicatePacks)

SpecDuplicate == InitDuplicate /\ [][NextRun]_vars

\* the triple of a discovered record that has a router
Triple(cit) ==
    [ name |-> cit.cit_name,
      ns |-> The(cit.organization).ns,
      prefix |-> The(cit.organization).prefix ]

\* the record is discovered after a record of the same triple
LaterDuplicate(i) ==
    /\ call.all_cits[i].organization # None
    /\ \E j \in 1..(i - 1) :
          /\ call.all_cits[j].organization # None
          /\ Triple(call.all_cits[j]) = Triple(call.all_cits[i])

\* the discovered records but the later duplicates, in discovery order
RECURSIVE FirstOfEachTriple(_)
FirstOfEachTriple(i) ==
    IF i > Len(call.all_cits) THEN <<>>
    ELSE (IF LaterDuplicate(i) THEN <<>> ELSE <<call.all_cits[i]>>) \o FirstOfEachTriple(i + 1)

\* C28: among the discovered records that have a router, only the first of
\* each triple (rule-file stem, target namespace, target prefix) is selected,
\* validated and converted; a later record of the same triple is never
\* converted, is in no rejection or orphan list, adds no ledger entry and is in
\* the duplicated-name report; records of pairwise distinct triples, and
\* records without router, are all converted.
C28_FirstOfEachTripleConverted ==
    /\ pc.phase # "start" =>
          /\ call.cit_to_convert = FirstOfEachTriple(1)
          /\ call.duplicated
                = SelectSeq([i \in 1..Len(call.all_cits) |->
                                 IF LaterDuplicate(i)
                                 THEN call.all_cits[i].property_file_path
                                 ELSE PropertiesFile(<<>>, <<>>)],
                            LAMBDA p : p # PropertiesFile(<<>>, <<>>))
          /\ Converted => \E i \in 1..Len(call.all_cits) :
                              ~LaterDuplicate(i) /\ call.all_cits[i] = ConvertedCit
    /\ RunEnded =>
          \A i \in 1..Len(call.all_cits) :
              LET path == call.all_cits[i].property_file_path
              IN  IF LaterDuplicate(i)
                  THEN /\ ConversionsOf(h, path) = <<>>
                       /\ ~InReport(h, path)
                       /\ h.report # None =>
                             Occurrences(The(h.report).duplicated_cit_names, path) = 1
                  ELSE ConversionsOf(h, path) # <<>> \/ InReport(h, path)

\* a/foo.properties and b/foo.properties both go to the default router, b/foo
\* is discovered second and dropped; a/bar.properties is converted after it
C28_Witness ==
    /\ pc.phase = "done"
    /\ Len(call.all_cits) = 3
    /\ call.all_cits[1].property_file_path = PropertiesFile(DirA, <<"foo">>)
    /\ call.all_cits[2].property_file_path = PropertiesFile(DirB, <<"foo">>)
    /\ LaterDuplicate(2)
    /\ Len(call.cit_to_convert) = 2
    /\ The(h.report).duplicated_cit_names = <<PropertiesFile(DirB, <<"foo">>)>>
    /\ ConversionsOf(h, PropertiesFile(DirB, <<"foo">>)) = <<>>
    /\ ConversionsOf(h, PropertiesFile(DirA, <<"foo">>)) # <<>>
    /\ ConversionsOf(h, PropertiesFile(DirA, <<"bar">>)) # <<>>
    /\ h.writes[get_item_def_path(DefaultOrganization, <<"foo">>)] = 1

(***************************************************************************)
(* Runs over a stack-size group whose members may declare the same         *)
(* threshold                                                               *)
(***************************************************************************)
TieFiles == {PngFile(DirA, <<"t">>), PngFile(DirA, <<"u">>)}
TieSizes == {5, 10}

\* rod_5 with a/t.png, rod_10 with a/u.png, each with a stack size of 5 or 10,
\* with or without rod, in every discovery order
TiePacks ==
    UNION { { MkPack(TieFiles, <<>>, rules, NoMapping)
                : rules \in Orders(<<GroupRule(<<"rod", "5">>, <<Texture(<<>>, <<"t">>)>>, s5),
                                     GroupRule(<<"rod", "10">>, <<Texture(<<>>, <<"u">>)>>, s10)>>
                                   \o base) }
            : s5 \in TieSizes, s10 \in TieSizes,
              base \in { <<>>, <<GroupRule(<<"rod">>, <<Texture(<<>>, <<"t">>)>>, 1)>>,
                         <<GroupRule(<<"rod">>, <<Texture(<<>>, <<"u">>)>>, 5)>> } }

InitTie == InitRun(TiePacks)

SpecTie == InitTie /\ [][NextRun]_vars

\* cit.convert() of a member of a stack-size group that passed validation has
\* returned
GroupTriggered ==
    /\ Converted
    /\ ret.exc = NoError
    /\ Failing(ConvertedCit) = {}
    /\ ConvertedCit.keys.has_stack_size

\* C29: the item definition written for a stack-size group, its path and its
\* range_dispatch entries in order, is the same whichever member triggers the
\* synthesis and in whatever order the members are processed, members that
\* declare the same threshold included: a member that writes the definition
\* again writes what was there.
C29_GroupOutputDeterministic ==
    GroupTriggered =>
        /\ ItemDefinitionsWritten = {get_item_def_path(DefaultOrganization, <<"rod">>)}
        /\ \A file \in ItemDefinitionsWritten :
              file \in DOMAIN ret.pre.out => h.out[file] = ret.pre.out[file]

(***************************************************************************)
(* Runs over a stack-size group with a member that record validation       *)
(* rejects                                                                 *)
(***************************************************************************)
RejectedFiles == {PngFile(DirA, <<"t">>), PngFile(DirA, <<"u">>)}

\* rod_10, the only record that names a/u.png: accepted, or rejected for its
\* type, for a dotted texture key, for a model that is nowhere, for a second
\* texture that is nowhere, for its stack size, or for its missing items
RejectedMembers ==
    { <<Items(<<Stick>>), Texture(<<>>, <<"u">>), StackSize(<<IntPart(10)>>)>>,
      <<Type("enchantment"), Items(<<Stick>>), Texture(<<>>, <<"u">>), StackSize(<<IntPart(10)>>)>>,
      <<Items(<<Stick>>), Texture(<<>>, <<"u">>), Texture(<<"bow", "pulling", "0">>, <<"u">>),
        StackSize(<<IntPart(10)>>)>>,
      <<Items(<<Stick>>), Texture(<<>>, <<"u">>), Model(<<>>, <<"missing">>),
        StackSize(<<IntPart(10)>>)>>,
      <<Items(<<Stick>>), Texture(<<>>, <<"u">>), Texture(<<"x">>, <<"missing">>),
        StackSize(<<IntPart(10)>>)>>,
      <<Items(<<Stick>>), Texture(<<>>, <<"u">>), StackSize(<<TextPart>>)>>,
      <<Texture(<<>>, <<"u">>), StackSize(<<IntPart(10)>>)>> }

RejectedPacks ==
    UNION { { MkPack(RejectedFiles, <<>>, rules, NoMapping)
                : rules \in Orders(<<GroupRule(<<"rod", "5">>, <<Texture(<<>>, <<"t">>)>>, 5),
                                     Rule(PropertiesFile(DirA, <<"rod", "10">>), member)>>
                                   \o base) }
            : member \in RejectedMembers,
              base \in {<<>>, <<GroupRule(<<"rod">>, <<Texture(<<>>, <<"t">>)>>, 1)>>} }

InitRejected == InitRun(RejectedPacks)

SpecRejected == InitRejected /\ [][NextRun]_vars

\* the model generated for the texture of a record of item stick
GeneratedModel(cit) == GenericOutputName(<<"stick">>, cit.cit_name, <<>>)

\* an item definition of the output tree holds an entry that names the model
NamedInDefinition(name) ==
    \E file \in DOMAIN h.out :
        /\ file.kind = "items"
        /\ "entries" \in DOMAIN h.out[file].model
        /\ \E i \in 1..Len(h.out[file].model.entries) :
              h.out[file].model.entries[i].model
                  = ModelDef(get_item_model_ref(DefaultOrganization, name)).model

\* C30: a rule file that record validation rejects adds nothing to the output
\* tree: its texture is not converted, no model is generated for it, and no
\* item definition holds an entry synthesized from it, also when it is a
\* member of a stack-size group that another record triggers.
C30_RejectedContributesNothing ==
    pc.phase # "start" =>
        \A i \in 1..Len(call.all_cits) :
            (Failing(call.all_cits[i]) # {} /\ call.all_cits[i].cit_name = <<"rod", "10">>) =>
                /\ OutFile(DefaultOrganization, "textures/item", <<"u">>, <<".png">>)
                      \notin DOMAIN h.out
                /\ get_item_model_path(DefaultOrganization, GeneratedModel(call.all_cits[i]))
                      \notin DOMAIN h.out
                /\ ~NamedInDefinition(GeneratedModel(call.all_cits[i]))

====
